---- MODULE Spec2Model ----
(***************************************************************************)
(* Backup History Tracker of the Weaviate admin console (pages/backup.py). *)
(* The remote cluster is the set of collections it holds, the schema and   *)
(* the objects of the BackupHistory collection (in the order the remote    *)
(* store returns them) and the state of the remote backup jobs.  Each      *)
(* browser session runs the page's handlers; create_backup is split at its *)
(* three remote interactions (store, invoke, transition).                  *)
(***************************************************************************)
EXTENDS Integers, Sequences, FiniteSets, TLC

VARIABLES collections, schema, store, nextUuid, now, pc, cur, last, session_state

vars == <<collections, schema, store, nextUuid, now, pc, cur, last, session_state>>

(* ------------------------------ bounds -------------------------------- *)
MaxRecords == 2
MaxTime == 4
MaxLimit == 2
MaxHist == 3
MaxHistTime == 3

(* ----------------------------- constants ------------------------------ *)
BACKUP_HISTORY_COLLECTION == "BackupHistory"
ScanLimit == 1000
UserCollections == {"Articles"}
Sessions == {"s1", "s2"}
MainSessions == {"s1"}
BackupIds == {"b1", "b2"}
Providers == {"filesystem"}
None == 0
DefaultLimit == 100
Terminal == {"SUCCESS", "FAILED"}

(* available_data_types(): the fixed, exhaustive list of type tokens the   *)
(* Schema/Type Mapper accepts.                                             *)
get_available_data_types ==
    {"TEXT", "INT", "NUMBER", "BOOL", "DATE", "BLOB", "UUID", "GEO_COORDINATES", "PHONE_NUMBER"}

(* backup_properties: the property list initialize passes to the mapper.   *)
backup_properties ==
    << [name |-> "backup_id",       type |-> "TEXT"],
       [name |-> "provider",        type |-> "TEXT"],
       [name |-> "status",          type |-> "TEXT"],
       [name |-> "created_date",    type |-> "DATE"],
       [name |-> "collections",     type |-> "TEXT_ARRAY"],
       [name |-> "path",            type |-> "TEXT"],
       [name |-> "size_bytes",      type |-> "INT"],
       [name |-> "error_message",   type |-> "TEXT"],
       [name |-> "completion_time", type |-> "DATE"] >>

(* The persisted audit schema of a BackupHistory collection.               *)
AuditSchema == {backup_properties[i] : i \in 1..Len(backup_properties)}

(* ------------------------------ helpers ------------------------------- *)
Msg(kind, id) == [kind |-> kind, id |-> id]

Take(s, n) == IF Len(s) <= n THEN s ELSE SubSeq(s, 1, n)

InsertAt(s, pos, x) == SubSeq(s, 1, pos - 1) \o <<x>> \o SubSeq(s, pos, Len(s))

RemoveAt(s, i) == SubSeq(s, 1, i - 1) \o SubSeq(s, i + 1, Len(s))

(* A listing that skips the client-side sort: rows in remote order.        *)
RemoteOrder(s) == s

(* list.sort(key=created_date, reverse=True): stable, descending.          *)
RECURSIVE SortNewestFirst(_)
SortNewestFirst(s) ==
    IF Len(s) <= 1 THEN s
    ELSE LET rest == SortNewestFirst(Tail(s))
             x == Head(s)
             k == Cardinality({i \in 1..Len(rest) : rest[i].created_date > x.created_date})
         IN InsertAt(rest, k + 1, x)

(* A scan that takes the first object listed, whatever id it carries.      *)
FirstListed(objs, backup_id) == IF objs = << >> THEN 0 ELSE 1

(* A scan without the break: the last object carrying backup_id, or 0.    *)
LastMatch(objs, backup_id) ==
    LET hits == {i \in 1..Len(objs) : objs[i].backup_id = backup_id}
    IN IF hits = {} THEN 0 ELSE CHOOSE i \in hits : \A j \in hits : i >= j

(* Index of the first object of the scanned prefix carrying backup_id, or  *)
(* 0: the for/break loop of update_backup_status.                          *)
FirstMatch(objs, backup_id) ==
    LET hits == {i \in 1..Len(objs) : objs[i].backup_id = backup_id}
    IN IF hits = {} THEN 0 ELSE CHOOSE i \in hits : \A j \in hits : i <= j

(* ---------------------- Collection Manager (create) -------------------- *)
(* create_collection_with_properties: all-or-nothing creation; a property  *)
(* whose type token the mapper does not know rejects the whole call.       *)
(* A mapper that creates the collection from the properties it can map and *)
(* leaves the others out.                                                  *)
create_skipping_unmappable(cols, sch, name, properties, exc) ==
    IF exc = "create" THEN [collections |-> cols, schema |-> sch, ok |-> FALSE]
    ELSE IF name \in cols THEN [collections |-> cols, schema |-> sch, ok |-> FALSE]
    ELSE [collections |-> cols \cup {name},
          schema |-> {properties[i] : i \in {j \in 1..Len(properties) : properties[j].type \in get_available_data_types}},
          ok |-> \A i \in 1..Len(properties) : properties[i].type \in get_available_data_types]

create_collection_with_properties(cols, sch, name, properties, exc) ==
    IF exc = "create" THEN [collections |-> cols, schema |-> sch, ok |-> FALSE]
    ELSE IF name \in cols THEN [collections |-> cols, schema |-> sch, ok |-> FALSE]
    ELSE IF \E i \in 1..Len(properties) : properties[i].type \notin get_available_data_types
         THEN [collections |-> cols, schema |-> sch, ok |-> FALSE]
    ELSE [collections |-> cols \cup {name},
          schema |-> {properties[i] : i \in 1..Len(properties)},
          ok |-> TRUE]

(* ------------------------ Backup History Tracker ----------------------- *)
(* exc names the remote client call that raises during the operation, or  *)
(* "none".  Each operator returns the cluster state it leaves and what the *)
(* function returns.                                                       *)

(* A remote call that raises leaves the operation with raised = TRUE; the   *)
(* operation's `except Exception` clause turns that into a normal return.  *)
(* Without the clause the exception reaches the caller.                    *)
reraise(ret) == ret

except_Exception(ret) == [ret EXCEPT !.raised = FALSE]

(* An initialisation that issues the create without asking whether the    *)
(* collection exists.                                                      *)
initialize_without_exists_check(cols, sch, exc) ==
    IF exc = "exists"
    THEN except_Exception([collections |-> cols, schema |-> sch, issued |-> FALSE,
                           raised |-> TRUE])
    ELSE LET r == create_collection_with_properties(
                      cols, sch, BACKUP_HISTORY_COLLECTION, backup_properties, exc)
         IN [collections |-> r.collections, schema |-> r.schema, issued |-> TRUE,
             raised |-> FALSE]

initialize_backup_history_collection(cols, sch, exc) ==
    IF exc = "exists"
    THEN except_Exception([collections |-> cols, schema |-> sch, issued |-> FALSE,
                           raised |-> TRUE])
    ELSE IF BACKUP_HISTORY_COLLECTION \in cols
         THEN [collections |-> cols, schema |-> sch, issued |-> FALSE, raised |-> FALSE]
    ELSE LET r == create_collection_with_properties(
                      cols, sch, BACKUP_HISTORY_COLLECTION, backup_properties, exc)
         IN [collections |-> r.collections, schema |-> r.schema, issued |-> TRUE,
             raised |-> FALSE]

(* A record that keeps a supplied completion_time whatever the status is.  *)
keeping_supplied_time(uuid, backup_id, provider, colls, status, path, completion_time, t) ==
    [uuid |-> uuid,
     backup_id |-> backup_id,
     provider |-> provider,
     status |-> status,
     created_date |-> t,
     collections |-> colls,
     path |-> path,
     size_bytes |-> 0,
     error_message |-> "",
     completion_time |-> IF completion_time # None THEN completion_time
                         ELSE IF status \in Terminal THEN t ELSE None]

(* Lines 58-71: the metadata mapping, None values removed (a record whose  *)
(* completion_time is None has no completion_time).                        *)
Metadata(uuid, backup_id, provider, colls, status, path, completion_time, t) ==
    [uuid |-> uuid,
     backup_id |-> backup_id,
     provider |-> provider,
     status |-> status,
     created_date |-> t,
     collections |-> colls,
     path |-> path,
     size_bytes |-> 0,
     error_message |-> "",
     completion_time |-> IF status \in Terminal
                         THEN (IF completion_time # None THEN completion_time ELSE t)
                         ELSE None]

(* An insert keyed on backup_id: it replaces the records carrying the id.  *)
InsertReplacing(st, pos, x) ==
    LET kept == SelectSeq(st, LAMBDA r : r.backup_id # x.backup_id)
    IN InsertAt(kept, IF pos > Len(kept) + 1 THEN Len(kept) + 1 ELSE pos, x)

(* collection.data.insert: the object gets a fresh uuid, which decides its *)
(* place in the order the remote store lists objects in.                   *)
InsertObject(st, pos, x) == InsertAt(st, pos, x)

store_backup_metadata(cols, sch, st, backup_id, provider, colls, status, path, completion_time, t, uuid, pos, exc) ==
    LET failed == except_Exception(
                      [collections |-> cols, schema |-> sch, store |-> st, ok |-> FALSE,
                       msg |-> Msg("store_error", backup_id), uuid |-> None,
                       read |-> FALSE, raised |-> TRUE])
    IN IF exc = "exists" THEN failed
       ELSE LET init == IF BACKUP_HISTORY_COLLECTION \in cols
                        THEN [collections |-> cols, schema |-> sch]
                        ELSE initialize_backup_history_collection(cols, sch, exc)
                metadata == Metadata(uuid, backup_id, provider, colls, status, path,
                                     completion_time, t)
            IN IF exc = "get"
               THEN [failed EXCEPT !.collections = init.collections, !.schema = init.schema]
               ELSE IF exc = "insert" \/ BACKUP_HISTORY_COLLECTION \notin init.collections
               THEN [failed EXCEPT !.collections = init.collections, !.schema = init.schema,
                                   !.read = TRUE]
               ELSE [collections |-> init.collections, schema |-> init.schema,
                     store |-> InsertObject(st, pos, metadata), ok |-> TRUE,
                     msg |-> Msg("stored", backup_id), uuid |-> uuid, read |-> TRUE,
                     raised |-> FALSE]

(* get_backup_history with what becomes of an exception: the rows it       *)
(* returns and whether it raised to its caller.                            *)
fetch_backup_history(cols, st, limit, exc) ==
    IF exc = "exists" THEN except_Exception([rows |-> << >>, raised |-> TRUE])
    ELSE IF BACKUP_HISTORY_COLLECTION \notin cols THEN [rows |-> << >>, raised |-> FALSE]
    ELSE IF exc \in {"get", "fetch"} THEN except_Exception([rows |-> << >>, raised |-> TRUE])
    ELSE [rows |-> SortNewestFirst(Take(st, limit)), raised |-> FALSE]

get_backup_history(cols, st, limit, exc) == fetch_backup_history(cols, st, limit, exc).rows

(* An update that inserts a record for an id it does not find.             *)
record_created_when_missing(st, backup_id, status, t) ==
    [store |-> Append(st, Metadata(Len(st) + 1, backup_id, "filesystem", {}, status, "", None, t)),
     ok |-> TRUE, msg |-> Msg("updated", backup_id), hit |-> None, read |-> TRUE,
     raised |-> FALSE]

(* Lines 145-146: no object of the scan carries backup_id.                 *)
record_not_found(st, backup_id, status, t) ==
    [store |-> st, ok |-> FALSE, msg |-> Msg("record_not_found", backup_id),
     hit |-> None, read |-> FALSE, raised |-> FALSE]

update_backup_status(cols, st, backup_id, status, error_message, size_bytes, path, t, exc) ==
    LET returned(kind, id) == [store |-> st, ok |-> FALSE, msg |-> Msg(kind, id),
                               hit |-> None, read |-> FALSE, raised |-> FALSE]
        failed(kind, id) == except_Exception([returned(kind, id) EXCEPT !.raised = TRUE])
    IN IF exc = "exists" THEN failed("update_error", backup_id)
       ELSE IF BACKUP_HISTORY_COLLECTION \notin cols THEN returned("collection_not_found", "")
       ELSE IF exc \in {"get", "fetch"} THEN failed("update_error", backup_id)
       ELSE LET i == FirstMatch(Take(st, ScanLimit), backup_id)
            IN IF i = 0 THEN record_not_found(st, backup_id, status, t)
               ELSE IF exc = "update"
                    THEN [failed("update_error", backup_id) EXCEPT !.read = TRUE]
               ELSE [store |-> [st EXCEPT ![i] =
                                   [@ EXCEPT !.status = status,
                                             !.completion_time = t,
                                             !.error_message = IF error_message # "" THEN error_message ELSE @,
                                             !.size_bytes = IF size_bytes > 0 THEN size_bytes ELSE @,
                                             !.path = IF path # "" THEN path ELSE @]],
                     ok |-> TRUE, msg |-> Msg("updated", backup_id), hit |-> st[i].uuid,
                     read |-> TRUE, raised |-> FALSE]

delete_backup_record(cols, st, backup_uuid, exc) ==
    LET failed == except_Exception([store |-> st, ok |-> FALSE,
                                    msg |-> Msg("delete_error", ""), raised |-> TRUE])
    IN IF exc = "exists" THEN failed
       ELSE IF BACKUP_HISTORY_COLLECTION \notin cols
            THEN [store |-> st, ok |-> FALSE, msg |-> Msg("collection_not_found", ""),
                  raised |-> FALSE]
       ELSE IF exc \in {"get", "delete"} THEN failed
       ELSE LET hits == {i \in 1..Len(st) : st[i].uuid = backup_uuid}
            IN [store |-> IF hits = {} THEN st ELSE RemoveAt(st, CHOOSE i \in hits : TRUE),
                ok |-> TRUE, msg |-> Msg("deleted", ""), raised |-> FALSE]

(* ------------------------------- state -------------------------------- *)
(* last: what the most recent handler did and returned (its observable     *)
(* result); rows is the list get_backup_history returned.                  *)
(* An entry written into st.session_state.backup_operations.  The dict is  *)
(* only ever displayed, so the model keeps the entry the last handler wrote. *)
Entry(key, type, status) == [key |-> key, type |-> type, status |-> status]

NoEntry == Entry("", "", "")

NoOp ==
    [op |-> "none", sess |-> "", id |-> "", ok |-> TRUE, msg |-> Msg("", ""),
     rows |-> << >>, own |-> None, hit |-> None, issued |-> FALSE, status |-> "",
     job |-> "", limit |-> 0, known |-> FALSE, entry |-> NoEntry, exc |-> "none",
     raised |-> FALSE]

(* The keys of st.session_state the backup page does not use.              *)
NoSessionState == [page |-> "backup"]

NoCall == [id |-> "", wait |-> TRUE, metadata_success |-> FALSE, own |-> None, job |-> "none"]

Carried(st, backup_id) == \E i \in 1..Len(st) : st[i].backup_id = backup_id

Init ==
    /\ collections \in {UserCollections, UserCollections \cup {BACKUP_HISTORY_COLLECTION}}
    /\ schema = IF BACKUP_HISTORY_COLLECTION \in collections THEN AuditSchema ELSE {}
    /\ store = << >>
    /\ nextUuid = 1
    /\ now = 1
    /\ pc = [s \in Sessions |-> "idle"]
    /\ cur = [s \in Sessions |-> NoCall]
    /\ last = NoOp
    /\ session_state = NoSessionState

(* The remote calls that can raise inside a handler that initialises the   *)
(* collection when it is absent: create is only called then.               *)
CreateRaises == IF BACKUP_HISTORY_COLLECTION \in collections THEN {} ELSE {"create"}

(* main(), lines 673-677: every run of the page initialises the audit      *)
(* collection.                                                             *)
PageLoad(s) ==
    /\ pc[s] = "idle"
    /\ \E exc \in {"none", "exists"} \cup CreateRaises :
        LET r == initialize_backup_history_collection(collections, schema, exc)
        IN /\ collections' = r.collections
           /\ schema' = r.schema
           /\ last' = [NoOp EXCEPT !.op = "initialize", !.issued = r.issued, !.exc = exc]
           /\ UNCHANGED <<store, nextUuid, now, pc, cur, session_state>>

(* A create_backup that logs the backup as done from the start.            *)
LoggedAsDone == "SUCCESS"

(* Line 275: the status create_backup stores its record with.              *)
InitialStatus == "IN_PROGRESS"

(* create_backup, lines 274-278: store the IN_PROGRESS record.             *)
StartBackup(s) ==
    /\ pc[s] = "idle"
    /\ nextUuid <= MaxRecords
    /\ now < MaxTime
    /\ \E backup_id \in BackupIds, provider \in Providers, wait \in BOOLEAN,
          pos \in 1..(Len(store) + 1),
          exc \in {"none", "exists", "insert"} \cup CreateRaises :
        LET r == store_backup_metadata(collections, schema, store, backup_id, provider,
                                       UserCollections, InitialStatus, "", None, now,
                                       nextUuid, pos, exc)
        IN /\ collections' = r.collections
           /\ schema' = r.schema
           /\ store' = r.store
           /\ nextUuid' = IF r.ok THEN nextUuid + 1 ELSE nextUuid
           /\ cur' = [cur EXCEPT ![s] = [id |-> backup_id, wait |-> wait,
                                        metadata_success |-> r.ok, own |-> r.uuid,
                                        job |-> "none"]]
           /\ pc' = [pc EXCEPT ![s] = "stored"]
           /\ last' = [NoOp EXCEPT !.op = "store_backup_metadata", !.sess = s,
                                   !.id = backup_id, !.ok = r.ok, !.msg = r.msg,
                                   !.own = r.uuid, !.status = InitialStatus,
                                   !.known = Carried(store, backup_id), !.exc = exc]
           /\ now' = IF r.read THEN now + 1 ELSE now
           /\ UNCHANGED session_state

(* create_backup, lines 283-288: client.backup.create returns (completed   *)
(* when it waited, merely started otherwise) or raises.                    *)
InvokeBackup(s) ==
    /\ pc[s] = "stored"
    /\ \E raises \in BOOLEAN :
        /\ cur' = [cur EXCEPT ![s].job = IF raises THEN "FAILED"
                                        ELSE IF cur[s].wait THEN "SUCCESS" ELSE "STARTED"]
        /\ pc' = [pc EXCEPT ![s] = IF raises THEN "raised" ELSE "invoked"]
        /\ last' = [NoOp EXCEPT !.op = "backup.create", !.sess = s, !.id = cur[s].id,
                                !.ok = ~raises, !.own = cur[s].own]
    /\ UNCHANGED <<collections, schema, store, nextUuid, now, session_state>>

(* The remote cluster finishes a backup that was started without waiting.  *)
RemoteBackupCompletes(s) ==
    /\ pc[s] = "invoked"
    /\ cur[s].job = "STARTED"
    /\ \E outcome \in Terminal : cur' = [cur EXCEPT ![s].job = outcome]
    /\ UNCHANGED <<collections, schema, store, nextUuid, now, pc, last, session_state>>

(* create_backup, lines 290-310: mark SUCCESS, record the operation.       *)
FinishBackup(s) ==
    /\ pc[s] = "invoked"
    /\ now < MaxTime
    /\ \E exc \in {"none", "exists", "fetch", "update"} :
        LET r == update_backup_status(collections, store, cur[s].id, "SUCCESS", "", 0, "", now, exc)
        IN /\ store' = r.store
           /\ now' = IF r.read THEN now + 1 ELSE now
           /\ last' = [NoOp EXCEPT !.op = "create_backup", !.sess = s, !.id = cur[s].id,
                                   !.ok = r.ok, !.msg = r.msg, !.own = cur[s].own,
                                   !.hit = r.hit, !.status = "SUCCESS", !.job = cur[s].job,
                                   !.known = Carried(store, cur[s].id), !.exc = exc,
                                   !.entry = Entry(cur[s].id, "create",
                                       IF cur[s].wait THEN "completed" ELSE "in_progress")]
    /\ pc' = [pc EXCEPT ![s] = "idle"]
    /\ cur' = [cur EXCEPT ![s] = NoCall]
    /\ UNCHANGED <<collections, schema, nextUuid, session_state>>

(* create_backup, lines 312-318: the except branch marks FAILED.           *)
FailBackup(s) ==
    /\ pc[s] = "raised"
    /\ now < MaxTime
    /\ \E exc \in {"none", "exists", "fetch", "update"} :
        LET r == update_backup_status(collections, store, cur[s].id, "FAILED", "error", 0, "", now, exc)
        IN /\ store' = r.store
           /\ now' = IF r.read THEN now + 1 ELSE now
           /\ last' = [NoOp EXCEPT !.op = "create_backup", !.sess = s, !.id = cur[s].id,
                                   !.ok = r.ok, !.msg = r.msg, !.own = cur[s].own,
                                   !.hit = r.hit, !.status = "FAILED", !.job = cur[s].job,
                                   !.known = Carried(store, cur[s].id), !.exc = exc]
    /\ pc' = [pc EXCEPT ![s] = "idle"]
    /\ cur' = [cur EXCEPT ![s] = NoCall]
    /\ UNCHANGED <<collections, schema, nextUuid, session_state>>

(* backup_management, lines 485-489: the history tab lists the records.    *)
ViewHistory ==
    \E limit \in (1..MaxLimit) \cup {DefaultLimit}, exc \in {"none", "exists", "fetch"} :
        /\ last' = [NoOp EXCEPT !.op = "get_backup_history", !.limit = limit, !.exc = exc,
                                !.rows = get_backup_history(collections, store, limit, exc)]
        /\ UNCHANGED <<collections, schema, store, nextUuid, now, pc, cur, session_state>>

(* backup_management, lines 610-649: with no history shown, the operator   *)
(* adds an existing backup by hand; it is stored as SUCCESS.               *)
ManualAdd(s) ==
    /\ pc[s] = "idle"
    /\ nextUuid <= MaxRecords
    /\ now < MaxTime
    /\ \E hexc \in {"none", "exists", "fetch"} :
           get_backup_history(collections, store, DefaultLimit, hexc) = << >>
    /\ \E manual_backup_id \in BackupIds, manual_provider \in Providers,
          manual_path \in {"p"}, pos \in 1..(Len(store) + 1),
          exc \in {"none", "exists", "insert"} \cup CreateRaises :
        LET r == store_backup_metadata(collections, schema, store, manual_backup_id,
                                       manual_provider, {}, "SUCCESS", manual_path, None,
                                       now, nextUuid, pos, exc)
        IN /\ collections' = r.collections
           /\ schema' = r.schema
           /\ store' = r.store
           /\ nextUuid' = IF r.ok THEN nextUuid + 1 ELSE nextUuid
           /\ last' = [NoOp EXCEPT !.op = "manual_add", !.sess = s, !.id = manual_backup_id,
                                   !.ok = r.ok, !.msg = r.msg, !.own = r.uuid,
                                   !.status = "SUCCESS", !.exc = exc,
                                   !.known = Carried(store, manual_backup_id)]
           /\ now' = IF r.read THEN now + 1 ELSE now
           /\ UNCHANGED <<pc, cur, session_state>>

(* backup_management, lines 566-574: the delete button of a listed record. *)
DeleteRecord(s) ==
    \E i \in 1..Len(store), exc \in {"none", "exists", "delete"} :
        /\ pc[s] = "idle"
        /\ BACKUP_HISTORY_COLLECTION \in collections
        /\ LET r == delete_backup_record(collections, store, store[i].uuid, exc)
           IN /\ store' = r.store
              /\ last' = [NoOp EXCEPT !.op = "delete_backup_record", !.ok = r.ok,
                                      !.msg = r.msg, !.hit = store[i].uuid, !.exc = exc]
        /\ UNCHANGED <<collections, schema, nextUuid, now, pc, cur, session_state>>

(* A restore that is tracked in the history like a backup.                 *)
restore_backup_tracked(st, backup_id, wait_for_completion, raises) ==
    [store |-> Append(st, Metadata(Len(st) + 1, backup_id, "filesystem", {},
                                   IF raises THEN "FAILED" ELSE "SUCCESS", "", None, 1)),
     entry |-> IF raises THEN NoEntry
               ELSE Entry("restore_" \o backup_id, "restore",
                          IF wait_for_completion THEN "completed" ELSE "in_progress")]

(* restore_backup, lines 362-394: invoke the restore primitive; when it    *)
(* returns, write the operation into st.session_state.backup_operations.   *)
(* Returns the history store it leaves and the session entry it writes.    *)
restore_backup(st, backup_id, wait_for_completion, raises) ==
    [store |-> st,
     entry |-> IF raises THEN NoEntry
               ELSE Entry("restore_" \o backup_id, "restore",
                          IF wait_for_completion THEN "completed" ELSE "in_progress")]

RestoreBackup(s) ==
    /\ pc[s] = "idle"
    /\ \E backup_id \in BackupIds, wait \in BOOLEAN, raises \in BOOLEAN :
        LET r == restore_backup(store, backup_id, wait, raises)
        IN /\ store' = r.store
           /\ last' = [NoOp EXCEPT !.op = "restore_backup", !.sess = s, !.id = backup_id,
                                   !.ok = ~raises,
                                   !.entry = r.entry]
    /\ UNCHANGED <<collections, schema, nextUuid, now, pc, cur, session_state>>

(* backup_management, lines 532-562: the restore button of a SUCCESS row;  *)
(* backup_operations is a dict, so the append raises and is caught.        *)
RestoreFromHistory(s) ==
    /\ pc[s] = "idle"
    /\ BACKUP_HISTORY_COLLECTION \in collections
    /\ \E i \in 1..Len(store), raises \in BOOLEAN :
        /\ store[i].status = "SUCCESS"
        /\ last' = [NoOp EXCEPT !.op = "restore_from_history", !.sess = s,
                                !.id = store[i].backup_id, !.ok = FALSE,
                                !.hit = store[i].uuid, !.known = TRUE,
                                !.exc = IF raises THEN "restore" ELSE "append"]
    /\ UNCHANGED <<collections, schema, store, nextUuid, now, pc, cur, session_state>>

Next ==
    \/ \E s \in MainSessions : PageLoad(s)
    \/ \E s \in MainSessions : StartBackup(s)
    \/ \E s \in MainSessions : InvokeBackup(s)
    \/ \E s \in MainSessions : RemoteBackupCompletes(s)
    \/ \E s \in MainSessions : FinishBackup(s)
    \/ \E s \in MainSessions : FailBackup(s)
    \/ \E s \in MainSessions : ManualAdd(s)
    \/ \E s \in MainSessions : DeleteRecord(s)
    \/ \E s \in MainSessions : RestoreBackup(s)
    \/ \E s \in MainSessions : RestoreFromHistory(s)

Spec == Init /\ [][Next]_vars

(* ------------------- get_backup_history on given stores ----------------- *)
(* The stores get_backup_history is applied to: up to MaxHist records in   *)
(* the order the remote store lists them (by uuid), with any creation      *)
(* dates, since the uuid of a record is unrelated to its creation date.    *)
HistoryStores ==
    UNION {{[i \in 1..n |-> Metadata(i, IF i = 2 THEN "b2" ELSE "b1", "filesystem",
                                     UserCollections, "SUCCESS", "", None, f[i])] :
              f \in [1..n -> 1..MaxHistTime]} : n \in 0..MaxHist}

InitHistory ==
    /\ collections = UserCollections \cup {BACKUP_HISTORY_COLLECTION}
    /\ schema = AuditSchema
    /\ store \in HistoryStores
    /\ nextUuid = Len(store) + 1
    /\ now = MaxHistTime + 1
    /\ pc = [s \in Sessions |-> "idle"]
    /\ cur = [s \in Sessions |-> NoCall]
    /\ last = NoOp
    /\ session_state = NoSessionState

NextHistory == ViewHistory

HistorySpec == InitHistory /\ [][NextHistory]_vars

(* ---------------- the tracker's operations called directly -------------- *)
(* Each action is one call of a Backup History Tracker operation by a      *)
(* caller, with any one of the remote client calls it makes raising.       *)
TrackerOps == {"initialize_backup_history_collection", "store_backup_metadata",
               "get_backup_history", "update_backup_status", "delete_backup_record"}

CallInitialize ==
    \E exc \in {"none", "exists"} \cup CreateRaises :
        LET r == initialize_backup_history_collection(collections, schema, exc)
        IN /\ collections' = r.collections
           /\ schema' = r.schema
           /\ last' = [NoOp EXCEPT !.op = "initialize_backup_history_collection",
                                   !.issued = r.issued, !.exc = exc, !.raised = r.raised]
           /\ UNCHANGED <<store, nextUuid, now, pc, cur, session_state>>

CallStore ==
    /\ nextUuid <= MaxRecords
    /\ now < MaxTime
    /\ \E backup_id \in BackupIds, status \in {InitialStatus, "SUCCESS"},
          pos \in 1..(Len(store) + 1),
          exc \in {"none", "exists", "get", "insert"} \cup CreateRaises :
        LET r == store_backup_metadata(collections, schema, store, backup_id, "filesystem",
                                       UserCollections, status, "", None, now, nextUuid,
                                       pos, exc)
        IN /\ collections' = r.collections
           /\ schema' = r.schema
           /\ store' = r.store
           /\ nextUuid' = IF r.ok THEN nextUuid + 1 ELSE nextUuid
           /\ now' = IF r.read THEN now + 1 ELSE now
           /\ last' = [NoOp EXCEPT !.op = "store_backup_metadata", !.id = backup_id,
                                   !.ok = r.ok, !.msg = r.msg, !.own = r.uuid,
                                   !.status = status, !.exc = exc, !.raised = r.raised]
           /\ UNCHANGED <<pc, cur, session_state>>

CallHistory ==
    \E limit \in {DefaultLimit}, exc \in {"none", "exists", "get", "fetch"} :
        LET r == fetch_backup_history(collections, store, limit, exc)
        IN /\ last' = [NoOp EXCEPT !.op = "get_backup_history", !.limit = limit,
                                   !.rows = r.rows, !.exc = exc, !.raised = r.raised]
           /\ UNCHANGED <<collections, schema, store, nextUuid, now, pc, cur, session_state>>

CallUpdate ==
    /\ now < MaxTime
    /\ \E backup_id \in BackupIds, status \in Terminal,
          exc \in {"none", "exists", "get", "fetch", "update"} :
        LET r == update_backup_status(collections, store, backup_id, status,
                                      IF status = "FAILED" THEN "error" ELSE "", 0, "",
                                      now, exc)
        IN /\ store' = r.store
           /\ now' = IF r.read THEN now + 1 ELSE now
           /\ last' = [NoOp EXCEPT !.op = "update_backup_status", !.id = backup_id,
                                   !.ok = r.ok, !.msg = r.msg, !.hit = r.hit,
                                   !.status = status, !.exc = exc, !.raised = r.raised]
           /\ UNCHANGED <<collections, schema, nextUuid, pc, cur, session_state>>

CallDelete ==
    \E backup_uuid \in 1..MaxRecords, exc \in {"none", "exists", "get", "delete"} :
        LET r == delete_backup_record(collections, store, backup_uuid, exc)
        IN /\ store' = r.store
           /\ last' = [NoOp EXCEPT !.op = "delete_backup_record", !.ok = r.ok,
                                   !.msg = r.msg, !.hit = backup_uuid, !.exc = exc,
                                   !.raised = r.raised]
           /\ UNCHANGED <<collections, schema, nextUuid, now, pc, cur, session_state>>

NextTracker ==
    \/ CallInitialize
    \/ CallStore
    \/ CallHistory
    \/ CallUpdate
    \/ CallDelete

TrackerSpec == Init /\ [][NextTracker]_vars

(* ---------------- completion_time of stored and updated records --------- *)
(* store_backup_metadata called with each status and with or without a     *)
(* completion_time, and update_backup_status called as create_backup calls *)
(* it, with a terminal status.                                             *)
SuppliedTimes == {None, MaxTime}

StoredStatuses == {InitialStatus} \cup Terminal

NoCompletion ==
    [op |-> "none", id |-> "", status |-> "", completion_time |-> None, t |-> None,
     ok |-> FALSE, own |-> None, hit |-> None, exc |-> "none"]

InitCompletion ==
    /\ collections = UserCollections \cup {BACKUP_HISTORY_COLLECTION}
    /\ schema = AuditSchema
    /\ store = << >>
    /\ nextUuid = 1
    /\ now = 1
    /\ pc = [s \in Sessions |-> "idle"]
    /\ cur = [s \in Sessions |-> NoCall]
    /\ last = NoCompletion
    /\ session_state = NoSessionState

CompletionFrame == UNCHANGED <<collections, schema, pc, cur, session_state>>

StoreWithCompletionTime ==
    /\ nextUuid <= MaxRecords
    /\ now < MaxTime
    /\ \E backup_id \in BackupIds, status \in StoredStatuses,
          completion_time \in SuppliedTimes, exc \in {"none", "insert"} :
        LET r == store_backup_metadata(collections, schema, store, backup_id, "filesystem",
                                       UserCollections, status, "", completion_time, now,
                                       nextUuid, Len(store) + 1, exc)
        IN /\ store' = r.store
           /\ nextUuid' = IF r.ok THEN nextUuid + 1 ELSE nextUuid
           /\ last' = [NoCompletion EXCEPT
                          !.op = "store_backup_metadata", !.id = backup_id,
                          !.status = status, !.completion_time = completion_time,
                          !.t = now, !.ok = r.ok, !.own = r.uuid, !.exc = exc]
    /\ now' = now + 1
    /\ CompletionFrame

UpdateWithTerminalStatus ==
    /\ now < MaxTime
    /\ \E backup_id \in BackupIds, status \in Terminal, exc \in {"none", "update"} :
        LET r == update_backup_status(collections, store, backup_id, status,
                                      IF status = "FAILED" THEN "error" ELSE "", 0, "",
                                      now, exc)
        IN /\ store' = r.store
           /\ last' = [NoCompletion EXCEPT
                          !.op = "update_backup_status", !.id = backup_id,
                          !.status = status, !.t = now, !.ok = r.ok, !.hit = r.hit,
                          !.exc = exc]
    /\ now' = now + 1
    /\ UNCHANGED nextUuid
    /\ CompletionFrame

NextCompletion ==
    \/ StoreWithCompletionTime
    \/ UpdateWithTerminalStatus

CompletionSpec == InitCompletion /\ [][NextCompletion]_vars

(* ---------------- two sessions running create_backup -------------------- *)
(* Each session runs create_backup with a backup_id of its own against the *)
(* same cluster; the store, backup.create and status-update steps of the   *)
(* two calls interleave in any order.                                      *)
MaxConcurrentTime == 5

BackupIdOf(s) == IF s = "s1" THEN "b1" ELSE "b2"

InitConcurrent ==
    /\ collections \in {UserCollections, UserCollections \cup {BACKUP_HISTORY_COLLECTION}}
    /\ schema = IF BACKUP_HISTORY_COLLECTION \in collections THEN AuditSchema ELSE {}
    /\ store = << >>
    /\ nextUuid = 1
    /\ now = 1
    /\ pc = [s \in Sessions |-> "idle"]
    /\ cur = [s \in Sessions |-> NoCall]
    /\ last = NoOp
    /\ session_state = NoSessionState

(* create_backup, lines 274-278, for a backup_id not yet in the history.   *)
ConcurrentStore(s) ==
    /\ pc[s] = "idle"
    /\ ~Carried(store, BackupIdOf(s))
    /\ now < MaxConcurrentTime
    /\ \E wait \in BOOLEAN, pos \in 1..(Len(store) + 1),
          exc \in {"none", "insert"} \cup CreateRaises :
        LET r == store_backup_metadata(collections, schema, store, BackupIdOf(s),
                                       "filesystem", UserCollections, InitialStatus, "",
                                       None, now, nextUuid, pos, exc)
        IN /\ collections' = r.collections
           /\ schema' = r.schema
           /\ store' = r.store
           /\ nextUuid' = IF r.ok THEN nextUuid + 1 ELSE nextUuid
           /\ cur' = [cur EXCEPT ![s] = [id |-> BackupIdOf(s), wait |-> wait,
                                        metadata_success |-> r.ok, own |-> r.uuid,
                                        job |-> "none"]]
           /\ last' = [NoOp EXCEPT !.op = "store_backup_metadata", !.sess = s,
                                   !.id = BackupIdOf(s), !.ok = r.ok, !.msg = r.msg,
                                   !.own = r.uuid, !.status = InitialStatus, !.exc = exc]
    /\ pc' = [pc EXCEPT ![s] = "stored"]
    /\ now' = now + 1
    /\ UNCHANGED session_state

(* create_backup, lines 290-293 and 312-315: the status update that        *)
(* follows backup.create, SUCCESS when it returned and FAILED when it      *)
(* raised.                                                                 *)
ConcurrentUpdate(s) ==
    /\ pc[s] \in {"invoked", "raised"}
    /\ now < MaxConcurrentTime
    /\ \E exc \in {"none", "update"} :
        LET status == IF pc[s] = "invoked" THEN "SUCCESS" ELSE "FAILED"
            r == update_backup_status(collections, store, cur[s].id, status,
                                      IF status = "FAILED" THEN "error" ELSE "", 0, "",
                                      now, exc)
        IN /\ store' = r.store
           /\ last' = [NoOp EXCEPT !.op = "create_backup", !.sess = s, !.id = cur[s].id,
                                   !.ok = r.ok, !.msg = r.msg, !.own = cur[s].own,
                                   !.hit = r.hit, !.status = status, !.job = cur[s].job,
                                   !.exc = exc]
    /\ now' = now + 1
    /\ pc' = [pc EXCEPT ![s] = "idle"]
    /\ cur' = [cur EXCEPT ![s] = NoCall]
    /\ UNCHANGED <<collections, schema, nextUuid, session_state>>

NextConcurrent ==
    \/ \E s \in Sessions : ConcurrentStore(s)
    \/ \E s \in Sessions : InvokeBackup(s)
    \/ \E s \in Sessions : RemoteBackupCompletes(s)
    \/ \E s \in Sessions : ConcurrentUpdate(s)

ConcurrentSpec == InitConcurrent /\ [][NextConcurrent]_vars

(* ------------------- Delete Collections page ---------------------------- *)
(* pages/delete_collections.py.  Every action is one operator interaction  *)
(* followed by the run of main() it triggers.  Text is a sequence of        *)
(* one-character strings.                                                  *)
DeletableCollections == {"Articles", "Books", "Cars"}

DELETE == <<"D", "E", "L", "E", "T", "E">>

ConfirmationTexts ==
    { << >>, DELETE, <<" ", "d", "e", "l", "e", "t", "e", " ">>, <<"d", "e", "l">>,
      <<"D", "E", "L", "E", "T", "E", "D">>, <<"D", "E", "L", " ", "E", "T", "E">> }

Whitespace == {" "}

(* str.strip(): drop leading and trailing whitespace.                      *)
RECURSIVE lstrip(_)
lstrip(t) == IF t # << >> /\ Head(t) \in Whitespace THEN lstrip(Tail(t)) ELSE t

RECURSIVE rstrip(_)
rstrip(t) ==
    IF t # << >> /\ t[Len(t)] \in Whitespace THEN rstrip(SubSeq(t, 1, Len(t) - 1)) ELSE t

strip(t) == rstrip(lstrip(t))

(* str.upper() on the letters the texts use.                               *)
upper(t) ==
    [i \in 1..Len(t) |->
        CASE t[i] = "d" -> "D" [] t[i] = "e" -> "E" [] t[i] = "l" -> "L"
          [] t[i] = "t" -> "T" [] OTHER -> t[i]]

(* A delete button that is enabled whatever was typed.                     *)
always_enabled(confirmation_text) == TRUE

(* Line 134.                                                               *)
delete_enabled(confirmation_text) == upper(strip(confirmation_text)) = DELETE

(* initialize_session_state, lines 9-16; checked and confirmation_text are *)
(* the widget values of the checkboxes and of the confirmation input.      *)
DeleteSessionState ==
    [page |-> "delete", selected_collections_for_deletion |-> {},
     show_confirmation |-> FALSE, checked |-> {}, confirmation_text |-> << >>]

NoRun ==
    [op |-> "none", button |-> "", selected_collections |-> << >>, attempted |-> << >>,
     success_count |-> 0, failed_collections |-> << >>,
     outcome |-> [c \in {} |-> ""]]

(* All orders list(set) can give.                                          *)
Orderings(S) ==
    {q \in [1..Cardinality(S) -> S] : \A i, j \in 1..Cardinality(S) : i # j => q[i] # q[j]}

(* A loop that stops at the first collection it cannot delete.             *)
break_on_failure(i, n, success) == IF success THEN i + 1 ELSE n + 1

(* Lines 156-172: the for loop goes on to the next collection whatever the *)
(* outcome of the current one.                                             *)
next_index(i, n, success) == i + 1

(* perform_deletion, lines 146-188.  outcome[c] is what                    *)
(* delete_collections(client, [c]) does: "deleted" (returns success),      *)
(* "failed" (returns failure) or "raised".                                 *)
RECURSIVE perform_deletion_from(_, _, _, _)
perform_deletion_from(acc, collections_to_delete, i, outcome) ==
    IF i > Len(collections_to_delete) THEN acc
    ELSE LET c == collections_to_delete[i]
             success == outcome[c] = "deleted"
             after == IF success
                      THEN [acc EXCEPT !.collections = @ \ {c},
                                       !.success_count = @ + 1,
                                       !.attempted = Append(@, c)]
                      ELSE [acc EXCEPT !.failed_collections = Append(@, <<c, outcome[c]>>),
                                       !.attempted = Append(@, c)]
         IN perform_deletion_from(after, collections_to_delete,
                                  next_index(i, Len(collections_to_delete), success), outcome)

perform_deletion(cols, collections_to_delete, outcome) ==
    perform_deletion_from([collections |-> cols, success_count |-> 0,
                           failed_collections |-> << >>, attempted |-> << >>],
                          collections_to_delete, 1, outcome)

(* display_collection_selector, lines 55-72: every listed collection is    *)
(* added to or discarded from the selection as its checkbox says.          *)
selector_run(selected, listed, checked) == (selected \ listed) \cup (checked \cap listed)

(* A page that offers its action buttons whatever the selection is.        *)
always_offered(selected) == TRUE

(* Line 77: display_collection_selector returns whether anything is        *)
(* selected; lines 208-223 render the two buttons only if it does.         *)
has_selections(selected) == Cardinality(selected) > 0

InitDelete ==
    /\ collections = DeletableCollections
    /\ schema = {}
    /\ store = << >>
    /\ nextUuid = 1
    /\ now = 1
    /\ pc = [s \in Sessions |-> "idle"]
    /\ cur = [s \in Sessions |-> NoCall]
    /\ last = NoRun
    /\ session_state = DeleteSessionState

DeleteFrame == UNCHANGED <<schema, store, nextUuid, now, pc, cur>>

(* The operator ticks or unticks the checkbox of a listed collection.      *)
ToggleCheckbox ==
    /\ ~session_state.show_confirmation
    /\ \E col \in collections :
        LET checked == IF col \in session_state.checked
                       THEN session_state.checked \ {col}
                       ELSE session_state.checked \cup {col}
        IN session_state' =
               [session_state EXCEPT
                    !.checked = checked,
                    !.selected_collections_for_deletion = selector_run(@, collections, checked)]
    /\ last' = [NoRun EXCEPT !.op = "select"]
    /\ UNCHANGED collections
    /\ DeleteFrame

(* Lines 216-218: "Delete Selected Collections"; the next run shows the    *)
(* confirmation, with an empty input and without the checkboxes.           *)
PressDeleteSelected ==
    /\ ~session_state.show_confirmation
    /\ has_selections(session_state.selected_collections_for_deletion)
    /\ session_state' = [session_state EXCEPT !.show_confirmation = TRUE,
                                              !.checked = {},
                                              !.confirmation_text = << >>]
    /\ last' = [NoRun EXCEPT !.op = "ask_confirmation", !.button = "delete_selected"]
    /\ UNCHANGED collections
    /\ DeleteFrame

(* Lines 221-223: "Clear Selection"; the checkboxes are keyed widgets, so  *)
(* the rerun may find them still ticked and select the collections again.  *)
PressClearSelection ==
    /\ ~session_state.show_confirmation
    /\ has_selections(session_state.selected_collections_for_deletion)
    /\ \E checked \in {session_state.checked, {}} :
        session_state' =
            [session_state EXCEPT
                 !.checked = checked,
                 !.selected_collections_for_deletion = selector_run({}, collections, checked)]
    /\ last' = [NoRun EXCEPT !.op = "clear", !.button = "clear_selection"]
    /\ UNCHANGED collections
    /\ DeleteFrame

(* Lines 118-122: the operator types into the confirmation input.          *)
TypeConfirmation ==
    /\ session_state.show_confirmation
    /\ \E text \in ConfirmationTexts :
        session_state' = [session_state EXCEPT !.confirmation_text = text]
    /\ last' = [NoRun EXCEPT !.op = "type"]
    /\ UNCHANGED collections
    /\ DeleteFrame

(* Lines 128-131: "Cancel".                                                *)
PressCancel ==
    /\ session_state.show_confirmation
    /\ session_state' = [session_state EXCEPT !.show_confirmation = FALSE,
                                              !.selected_collections_for_deletion = {},
                                              !.confirmation_text = << >>]
    /\ last' = [NoRun EXCEPT !.op = "cancel", !.button = "cancel"]
    /\ UNCHANGED collections
    /\ DeleteFrame

(* Lines 134-142: "DELETE COLLECTIONS", which can be pressed only while    *)
(* it is enabled, runs perform_deletion on the selection.                  *)
PressDelete ==
    /\ session_state.show_confirmation
    /\ delete_enabled(session_state.confirmation_text)
    /\ \E selected_collections \in Orderings(session_state.selected_collections_for_deletion),
          outcome \in [session_state.selected_collections_for_deletion ->
                           {"deleted", "failed", "raised"}] :
        LET r == perform_deletion(collections, selected_collections, outcome)
        IN /\ collections' = r.collections
           /\ last' = [op |-> "perform_deletion", button |-> "delete",
                       selected_collections |-> selected_collections,
                       attempted |-> r.attempted, success_count |-> r.success_count,
                       failed_collections |-> r.failed_collections, outcome |-> outcome]
    /\ session_state' = [session_state EXCEPT !.show_confirmation = FALSE,
                                              !.selected_collections_for_deletion = {},
                                              !.confirmation_text = << >>]
    /\ DeleteFrame

NextDelete ==
    \/ ToggleCheckbox
    \/ PressDeleteSelected
    \/ PressClearSelection
    \/ TypeConfirmation
    \/ PressCancel
    \/ PressDelete

DeleteSpec == InitDelete /\ [][NextDelete]_vars

(* ------------------------- Create Collection page ----------------------- *)
(* pages/create.py.  Names typed by the operator are sequences of          *)
(* one-character strings.                                                  *)
MaxProps == 2

Vectorizers ==
    {"BYOV", "text2vec_openai", "text2vec_cohere", "text2vec_jinaai",
     "text2vec_huggingface", "multi2vec_clip"}

KeyNames ==
    {"active_openai_key", "active_cohere_key", "active_jinaai_key", "active_huggingface_key"}

(* What st.session_state.get(key) gives: "absent" for a key that is not    *)
(* set, else the stored string; only a non-empty string is truthy.         *)
truthy(value) == value \notin {"absent", ""}

(* The keys of the active connection the runs start from.                  *)
ActiveKeyChoices ==
    { [k \in KeyNames |-> "sk"],
      [k \in KeyNames |-> IF k = "active_openai_key" THEN "sk" ELSE "absent"],
      [k \in KeyNames |-> IF k = "active_cohere_key" THEN ""
                          ELSE IF k = "active_jinaai_key" THEN "sk" ELSE "absent"] }

CollectionNameTexts == { << >>, <<" ">>, <<"C">>, <<" ", "D", " ">> }

PropertyNameTexts == { <<" ">>, <<"a", " ", "b">>, <<"A", "_", "B">>, <<" ", "a">> }

PropertyTypes == {"TEXT", "INT"}

(* str.lower() on the letters the names use.                               *)
lower(t) ==
    [i \in 1..Len(t) |->
        CASE t[i] = "A" -> "a" [] t[i] = "B" -> "b" [] t[i] = "C" -> "c"
          [] t[i] = "D" -> "d" [] OTHER -> t[i]]

(* str.replace(' ', '_').                                                  *)
replace_space(t) == [i \in 1..Len(t) |-> IF t[i] = " " THEN "_" ELSE t[i]]

(* Line 74.                                                                *)
sanitized_name(new_prop_name) == replace_space(lower(strip(new_prop_name)))

(* Line 75.                                                                *)
existing_names(custom_properties) ==
    {lower(custom_properties[i].name) : i \in 1..Len(custom_properties)}

(* Lines 71-88: the Add Property button.                                   *)
add_property(custom_properties, new_prop_name, new_prop_type) ==
    IF strip(new_prop_name) = << >> THEN custom_properties
    ELSE IF sanitized_name(new_prop_name) \notin existing_names(custom_properties)
         THEN Append(custom_properties, [name |-> strip(new_prop_name), type |-> new_prop_type])
    ELSE custom_properties

(* A form that sends the request whatever keys the connection has.         *)
no_key_check(selected_vectorizer, active) == TRUE

(* check_required_api_key, lines 252-265.                                  *)
check_required_api_key(selected_vectorizer, active) ==
    IF selected_vectorizer = "text2vec_openai" /\ ~truthy(active["active_openai_key"])
    THEN FALSE
    ELSE IF selected_vectorizer = "text2vec_cohere" /\ ~truthy(active["active_cohere_key"])
    THEN FALSE
    ELSE IF selected_vectorizer = "text2vec_jinaai" /\ ~truthy(active["active_jinaai_key"])
    THEN FALSE
    ELSE IF selected_vectorizer = "text2vec_huggingface"
            /\ ~truthy(active["active_huggingface_key"])
    THEN FALSE
    ELSE TRUE

(* create_collection of the Collection Manager: fails on a name that       *)
(* exists or when the remote call raises.                                  *)
create_collection(cols, name, exc) ==
    IF exc = "create" \/ name \in cols THEN [collections |-> cols, ok |-> FALSE]
    ELSE [collections |-> cols \cup {name}, ok |-> TRUE]

(* handle_form_submission, lines 268-325: which core function it invokes   *)
(* ("none" when it returns before the try) and what the call leaves; sch   *)
(* is the schema of the audit collection, which a creation of another      *)
(* collection leaves alone.                                                *)
handle_form_submission(cols, sch, collection_name, selected_vectorizer, custom_properties, active, exc) ==
    IF collection_name = << >>
    THEN [invoked |-> "none", collections |-> cols, schema |-> sch, ok |-> FALSE]
    ELSE IF ~check_required_api_key(selected_vectorizer, active)
    THEN [invoked |-> "none", collections |-> cols, schema |-> sch, ok |-> FALSE]
    ELSE IF custom_properties # << >>
    THEN LET r == create_collection_with_properties(cols, sch, collection_name,
                                                    custom_properties, exc)
         IN [invoked |-> "create_collection_with_properties",
             collections |-> r.collections, schema |-> sch, ok |-> r.ok]
    ELSE LET r == create_collection(cols, collection_name, exc)
         IN [invoked |-> "create_collection", collections |-> r.collections,
             schema |-> sch, ok |-> r.ok]

(* initialize_session_state, lines 17-22, and the keys the form uses.      *)
CreateSessionState(active) ==
    [page |-> "create", custom_properties |-> << >>, show_properties_config |-> FALSE,
     temp_collection_name |-> << >>, temp_vectorizer |-> "BYOV", active |-> active]

NoSubmission ==
    [op |-> "none", invoked |-> "none", ok |-> FALSE, collection_name |-> << >>,
     selected_vectorizer |-> ""]

InitCreate ==
    /\ collections = {<<"D">>}
    /\ schema = {}
    /\ store = << >>
    /\ nextUuid = 1
    /\ now = 1
    /\ pc = [s \in Sessions |-> "idle"]
    /\ cur = [s \in Sessions |-> NoCall]
    /\ last = NoSubmission
    /\ \E active \in ActiveKeyChoices : session_state = CreateSessionState(active)

CreateFrame == UNCHANGED <<store, nextUuid, now, pc, cur>>

(* Lines 199-206: "Configure Properties".                                  *)
ConfigureProperties ==
    /\ \E text \in CollectionNameTexts, selected_vectorizer \in Vectorizers :
        LET collection_name == strip(text)
        IN session_state' =
               IF collection_name # << >>
               THEN [session_state EXCEPT !.temp_collection_name = collection_name,
                                          !.temp_vectorizer = selected_vectorizer,
                                          !.show_properties_config = TRUE]
               ELSE session_state
    /\ last' = NoSubmission
    /\ UNCHANGED <<collections, schema>>
    /\ CreateFrame

AddProperty ==
    /\ session_state.show_properties_config
    /\ Len(session_state.custom_properties) < MaxProps
    /\ \E new_prop_name \in PropertyNameTexts, new_prop_type \in PropertyTypes :
        session_state' =
            [session_state EXCEPT
                 !.custom_properties = add_property(@, new_prop_name, new_prop_type)]
    /\ last' = NoSubmission
    /\ UNCHANGED <<collections, schema>>
    /\ CreateFrame

(* Lines 134-136: the delete button of property i.                         *)
DeleteProperty ==
    /\ session_state.show_properties_config
    /\ \E i \in 1..Len(session_state.custom_properties) :
        session_state' = [session_state EXCEPT !.custom_properties = RemoveAt(@, i)]
    /\ last' = NoSubmission
    /\ UNCHANGED <<collections, schema>>
    /\ CreateFrame

(* Lines 115-121 and 159-162: the type selectbox of property i.            *)
ChangePropertyType ==
    /\ session_state.show_properties_config
    /\ \E i \in 1..Len(session_state.custom_properties), type \in PropertyTypes :
        session_state' = [session_state EXCEPT !.custom_properties[i].type = type]
    /\ last' = NoSubmission
    /\ UNCHANGED <<collections, schema>>
    /\ CreateFrame

(* Lines 141-143 and 153-156: "Clear All Properties", "Reset All           *)
(* Properties".                                                            *)
ClearProperties ==
    /\ session_state.show_properties_config
    /\ session_state.custom_properties # << >>
    /\ session_state' = [session_state EXCEPT !.custom_properties = << >>]
    /\ last' = NoSubmission
    /\ UNCHANGED <<collections, schema>>
    /\ CreateFrame

(* Lines 235-242: "Reset Configuration".                                   *)
ResetConfiguration ==
    /\ session_state.show_properties_config
    /\ session_state' = [session_state EXCEPT !.show_properties_config = FALSE,
                                              !.custom_properties = << >>,
                                              !.temp_collection_name = << >>,
                                              !.temp_vectorizer = "BYOV"]
    /\ last' = NoSubmission
    /\ UNCHANGED <<collections, schema>>
    /\ CreateFrame

(* Lines 245-247 and 358-360: "Create Collection".                         *)
PressCreate ==
    /\ session_state.show_properties_config
    /\ \E exc \in {"none", "create"} :
        LET r == handle_form_submission(collections, schema,
                                        session_state.temp_collection_name,
                                        session_state.temp_vectorizer,
                                        session_state.custom_properties,
                                        session_state.active, exc)
        IN /\ collections' = r.collections
           /\ session_state' =
                  IF r.ok
                  THEN [session_state EXCEPT !.show_properties_config = FALSE,
                                             !.custom_properties = << >>,
                                             !.temp_collection_name = << >>,
                                             !.temp_vectorizer = "BYOV"]
                  ELSE session_state
           /\ last' = [op |-> "handle_form_submission", invoked |-> r.invoked, ok |-> r.ok,
                       collection_name |-> session_state.temp_collection_name,
                       selected_vectorizer |-> session_state.temp_vectorizer]
    /\ UNCHANGED schema
    /\ CreateFrame

NextCreate ==
    \/ ConfigureProperties
    \/ AddProperty
    \/ DeleteProperty
    \/ ChangePropertyType
    \/ ClearProperties
    \/ ResetConfiguration
    \/ PressCreate

CreateSpec == InitCreate /\ [][NextCreate]_vars

(* ----------------- update_backup_status on given stores ----------------- *)
(* The stores update_backup_status is applied to: up to MaxRecords records *)
(* in remote order, with any backup ids (store_backup_metadata does not    *)
(* keep them unique) and any status an insert leaves.                      *)
MaxUpdates == 2

UpdateStores ==
    UNION {{[i \in 1..n |-> Metadata(i, id[i], "filesystem", UserCollections, InitialStatus, "", None, 1)] :
              id \in [1..n -> BackupIds]} : n \in 0..MaxRecords}

(* The optional arguments of a call: each left at its default or passed.   *)
OptionalArguments ==
    { [error_message |-> "", size_bytes |-> 0, path |-> ""],
      [error_message |-> "error", size_bytes |-> 0, path |-> ""],
      [error_message |-> "", size_bytes |-> 7, path |-> "p"],
      [error_message |-> "error", size_bytes |-> 7, path |-> ""] }

NoUpdate ==
    [op |-> "none", id |-> "", status |-> "", error_message |-> "", size_bytes |-> 0,
     path |-> "", ok |-> FALSE, hit |-> None, exc |-> "none"]

InitUpdate ==
    /\ collections = UserCollections \cup {BACKUP_HISTORY_COLLECTION}
    /\ schema = AuditSchema
    /\ store \in UpdateStores
    /\ nextUuid = Len(store) + 1
    /\ now = 1
    /\ pc = [s \in Sessions |-> "idle"]
    /\ cur = [s \in Sessions |-> NoCall]
    /\ last = NoUpdate
    /\ session_state = NoSessionState

(* update_backup_status(client, backup_id, status, error_message,          *)
(* size_bytes, path); the clock moves on with every call.                  *)
UpdateStatus ==
    /\ now <= MaxUpdates
    /\ \E backup_id \in BackupIds, status \in Terminal, args \in OptionalArguments,
          exc \in {"none", "update"} :
        LET r == update_backup_status(collections, store, backup_id, status, args.error_message, args.size_bytes, args.path, now, exc)
        IN /\ store' = r.store
           /\ now' = now + 1
           /\ last' = [op |-> "update_backup_status", id |-> backup_id, status |-> status,
                       error_message |-> args.error_message, size_bytes |-> args.size_bytes,
                       path |-> args.path, ok |-> r.ok, hit |-> r.hit, exc |-> exc]
    /\ UNCHANGED <<collections, schema, nextUuid, pc, cur, session_state>>

NextUpdate == UpdateStatus

UpdateSpec == InitUpdate /\ [][NextUpdate]_vars

(* ------------------------ Batch Ingestion Engine ------------------------ *)
(* batch_upload of utils/collections/create.py and its consumer in         *)
(* pages/add_document.py.  An upload is N records cut into batches of B;   *)
(* outcome[k] says what the remote store does with batch k: "ok", "partial" *)
(* (it rejects one record of the batch) or "transport" (the call raises).  *)
MaxUploadRecords == 5

MaxBatchSize == 3

DefaultBatchSize == 100

ExampleRecords == 250

BatchOutcomes == {"ok", "partial", "transport"}

ceil_div(n, b) == (n + b - 1) \div b

(* A last batch that is counted as a full one.                             *)
full_batch_len(start, n, b) == b

(* The records of the batch that starts at record `start`.                 *)
batch_len(start, n, b) == IF n - start + 1 < b THEN n - start + 1 ELSE b

(* An upload that gives up at the first batch whose call raises.           *)
abort_on_transport_failure(start, n, b, result) ==
    IF result = "transport" THEN n + 1 ELSE start + b

(* The batch after the one at `start`, whatever became of that one.        *)
next_batch_start(start, n, b, result) == start + b

(* One yielded tuple (success, message, detail): the batch it reports, and *)
(* the counts its message gives.                                           *)
batch_result(k, size, result) ==
    [batch |-> k,
     success |-> result = "ok",
     succeeded |-> IF result = "ok" THEN size
                   ELSE IF result = "partial" THEN size - 1 ELSE 0,
     failed |-> IF result = "ok" THEN 0
                ELSE IF result = "partial" THEN 1 ELSE size]

RECURSIVE batches_from(_, _, _, _, _)
batches_from(start, k, n, b, outcome) ==
    IF start > n THEN << >>
    ELSE <<batch_result(k, batch_len(start, n, b), outcome[k])>>
         \o batches_from(next_batch_start(start, n, b, outcome[k]), k + 1, n, b, outcome)

(* batch_upload(client, collection_name, records): the finite sequence of  *)
(* tuples it yields.                                                       *)
batch_upload(n, b, outcome) == batches_from(1, 1, n, b, outcome)

UploadSizes ==
    ((0..MaxUploadRecords) \X (1..MaxBatchSize))
        \cup {<<ExampleRecords, DefaultBatchSize>>, <<1, DefaultBatchSize>>}

NoUpload ==
    [op |-> "none", n |-> 0, b |-> 1, outcome |-> << >>, yielded |-> << >>,
     success_count |-> 0, error_count |-> 0]

InitUpload ==
    /\ collections = UserCollections
    /\ schema = {}
    /\ store = << >>
    /\ nextUuid = 1
    /\ now = 1
    /\ pc = [s \in Sessions |-> "idle"]
    /\ cur = [s \in Sessions |-> NoCall]
    /\ last = NoUpload
    /\ session_state = [page |-> "add_document"]

UploadFrame ==
    UNCHANGED <<collections, schema, store, nextUuid, now, pc, cur, session_state>>

(* A consumer pulls the whole sequence of one batch_upload call.           *)
BatchUpload ==
    /\ \E size \in UploadSizes :
        \E outcome \in [1..ceil_div(size[1], size[2]) -> BatchOutcomes] :
            last' = [NoUpload EXCEPT !.op = "batch_upload", !.n = size[1], !.b = size[2],
                                    !.outcome = outcome,
                                    !.yielded = batch_upload(size[1], size[2], outcome)]
    /\ UploadFrame

(* handle_document_submission, lines 209-218: one cleaned record is        *)
(* uploaded and the yielded tuples are counted.                            *)
SubmitDocument ==
    /\ \E outcome \in [1..1 -> BatchOutcomes] :
        LET yielded == batch_upload(1, DefaultBatchSize, outcome)
        IN last' = [NoUpload EXCEPT
                       !.op = "handle_document_submission", !.n = 1,
                       !.b = DefaultBatchSize, !.outcome = outcome, !.yielded = yielded,
                       !.success_count =
                           Cardinality({k \in 1..Len(yielded) : yielded[k].success}),
                       !.error_count =
                           Cardinality({k \in 1..Len(yielded) : ~yielded[k].success})]
    /\ UploadFrame

NextUpload ==
    \/ BatchUpload
    \/ SubmitDocument

UploadSpec == InitUpload /\ [][NextUpload]_vars

(***************************************************************************)
(* Add Document page: handle_document_submission                           *)
(* (src/pages/add_document.py, lines 189-251).                             *)
(***************************************************************************)

MaxFields == 2

FieldNames == {"title", "count", "flag"}

(* A form value: None, a string, an int or a bool.                         *)
NoneValue == [kind |-> "none", s |-> << >>, i |-> 0, b |-> FALSE]
StrValue(t) == [kind |-> "str", s |-> t, i |-> 0, b |-> FALSE]
IntValue(n) == [kind |-> "int", s |-> << >>, i |-> n, b |-> FALSE]
BoolValue(v) == [kind |-> "bool", s |-> << >>, i |-> 0, b |-> v]

FieldValues ==
    {NoneValue, StrValue(<< >>), StrValue(<<" ">>), StrValue(<<"a">>),
     StrValue(<<" ", "a", " ">>), IntValue(0), BoolValue(FALSE)}

(* The dicts create_dynamic_form or any other caller can pass.             *)
Documents ==
    UNION {[names -> FieldValues] : names \in {N \in SUBSET FieldNames : Cardinality(N) <= MaxFields}}

(* str(value) for the values above.                                        *)
str(value) ==
    CASE value.kind = "none" -> <<"N", "o", "n", "e">>
      [] value.kind = "str" -> value.s
      [] value.kind = "int" -> IF value.i = 0 THEN <<"0">> ELSE <<"7">>
      [] value.kind = "bool" -> IF value.b THEN <<"T", "r", "u", "e">>
                                ELSE <<"F", "a", "l", "s", "e">>

(* Line 194: any(str(value).strip() for value in ... if value is not None) *)
any_filled(document_data) ==
    \E k \in DOMAIN document_data :
        document_data[k] # NoneValue /\ strip(str(document_data[k])) # << >>

(* A submission that uploads the form values as they are.                  *)
keep_all(document_data) == document_data

(* Lines 199-200: the dict comprehension that removes empty fields.        *)
cleaned(document_data) ==
    [k \in {f \in DOMAIN document_data :
                document_data[f] # NoneValue /\ strip(str(document_data[f])) # << >>}
        |-> document_data[k]]

NoDocumentSubmission ==
    [op |-> "none", document_data |-> [k \in {} |-> NoneValue], calls |-> << >>,
     outcome |-> "", success_count |-> 0, error_count |-> 0, shown |-> ""]

(* handle_document_submission: calls holds the record list of each         *)
(* batch_upload call; outcome is what the one batch does, or "raised" when *)
(* iterating batch_upload raises.                                          *)
handle_document_submission(document_data, outcome) ==
    IF ~any_filled(document_data)
    THEN [NoDocumentSubmission EXCEPT !.op = "handle_document_submission",
                              !.document_data = document_data,
                              !.shown = "Please fill in at least one field"]
    ELSE LET cleaned_data == cleaned(document_data)
         IN IF DOMAIN cleaned_data = {}
            THEN [NoDocumentSubmission EXCEPT !.op = "handle_document_submission",
                                      !.document_data = document_data,
                                      !.shown = "No valid data to submit"]
            ELSE LET yielded == IF outcome = "raised" THEN << >>
                                ELSE batch_upload(1, DefaultBatchSize, [k \in 1..1 |-> outcome])
                     success_count == Cardinality({k \in 1..Len(yielded) : yielded[k].success})
                 IN [op |-> "handle_document_submission",
                     document_data |-> document_data,
                     calls |-> << <<cleaned_data>> >>,
                     outcome |-> outcome,
                     success_count |-> success_count,
                     error_count |-> Len(yielded) - success_count,
                     shown |-> IF outcome = "raised" THEN "Error adding document"
                               ELSE IF success_count > 0 THEN "Document added successfully"
                               ELSE "Failed to add document"]

InitSubmit ==
    /\ collections = UserCollections
    /\ schema = {}
    /\ store = << >>
    /\ nextUuid = 1
    /\ now = 1
    /\ pc = [s \in Sessions |-> "idle"]
    /\ cur = [s \in Sessions |-> NoCall]
    /\ last = NoDocumentSubmission
    /\ session_state = [page |-> "add_document"]

(* Line 315: the form was submitted with document_data.                    *)
HandleDocumentSubmission ==
    /\ \E document_data \in Documents, outcome \in BatchOutcomes \cup {"raised"} :
        last' = handle_document_submission(document_data, outcome)
    /\ UNCHANGED <<collections, schema, store, nextUuid, now, pc, cur, session_state>>

NextSubmit == HandleDocumentSubmission

SubmitSpec == InitSubmit /\ [][NextSubmit]_vars

(* --------------------------- Schema Mapper ----------------------------- *)
(* create_collection_with_properties called with property lists that may   *)
(* name a semantic type outside get_available_data_types, as               *)
(* initialize_backup_history_collection does with TEXT_ARRAY.              *)
MaxMapperProps == 2

MapperNames == {"Articles", "Books", "Movies"}

MapperTypes == {"TEXT", "INT", "TEXT_ARRAY", "OBJECT"}

MapperPropertyNames == <<"title", "count", "tags">>

PropertyLists ==
    UNION { { [i \in 1..n |-> [name |-> MapperPropertyNames[i], type |-> t[i]]] : t \in [1..n -> MapperTypes] } : n \in 0..MaxMapperProps }

NoMapperCall == [op |-> "none", name |-> "", properties |-> << >>, ok |-> FALSE]

InitMapper ==
    /\ collections = {"Articles"}
    /\ schema = {}
    /\ store = << >>
    /\ nextUuid = 1
    /\ now = 1
    /\ pc = [s \in Sessions |-> "idle"]
    /\ cur = [s \in Sessions |-> NoCall]
    /\ last = NoMapperCall
    /\ session_state = [page |-> "mapper"]

MapperFrame == UNCHANGED <<store, nextUuid, now, pc, cur, session_state>>

(* create_collection_with_properties(client, name, properties): the form   *)
(* of pages/create.py and the tracker's initialisation are its callers.    *)
CallCreateWithProperties ==
    /\ \E name \in MapperNames, properties \in PropertyLists, exc \in {"none", "create"} :
        LET r == create_collection_with_properties(collections, schema, name, properties, exc)
        IN /\ collections' = r.collections
           /\ schema' = r.schema
           /\ last' = [op |-> "create_collection_with_properties", name |-> name,
                       properties |-> properties, ok |-> r.ok]
    /\ MapperFrame

(* The tracker's create: BACKUP_HISTORY_COLLECTION with backup_properties. *)
CallCreateBackupHistory ==
    /\ BACKUP_HISTORY_COLLECTION \notin collections
    /\ LET r == create_collection_with_properties(collections, schema, BACKUP_HISTORY_COLLECTION, backup_properties, "none")
       IN /\ collections' = r.collections
          /\ schema' = r.schema
          /\ last' = [op |-> "create_collection_with_properties",
                      name |-> BACKUP_HISTORY_COLLECTION,
                      properties |-> backup_properties, ok |-> r.ok]
    /\ MapperFrame

NextMapper ==
    \/ CallCreateWithProperties
    \/ CallCreateBackupHistory

MapperSpec == InitMapper /\ [][NextMapper]_vars

(* ------------------------- Edit Collections page ----------------------- *)
(* pages/edit_collections.py: `schema` holds the properties of the         *)
(* selected remote collection, session_state.new_properties the pending    *)
(* ones.  Existing properties are rendered in disabled inputs.             *)
MaxNewProps == 2

ExistingProperties ==
    { [name |-> <<"a">>, type |-> "TEXT"], [name |-> <<"b">>, type |-> "INT"] }

NewPropertyTexts == { <<" ">>, <<"a">>, <<" ", "a">>, <<"B">>, <<"c">>, <<" ", "c">> }

Descriptions == {"", "d"}

EditSessionState(new_properties) == [page |-> "edit", new_properties |-> new_properties]

NoEdit == [op |-> "none", message |-> "none"]

(* An Apply that recreates the collection from the pending properties.     *)
apply_recreating(properties, new_properties) ==
    IF new_properties = << >> THEN properties
    ELSE {[name |-> new_properties[i].name, type |-> new_properties[i].type] : i \in 1..Len(new_properties)}

(* apply_new_properties: the remote properties it leaves.  It shows the    *)
(* pending list and its JSON and calls nothing on the client.              *)
apply_new_properties(properties, new_properties) == properties

InitEdit ==
    /\ collections = {"Articles"}
    /\ schema = ExistingProperties
    /\ store = << >>
    /\ nextUuid = 1
    /\ now = 1
    /\ pc = [s \in Sessions |-> "idle"]
    /\ cur = [s \in Sessions |-> NoCall]
    /\ last = NoEdit
    /\ session_state = EditSessionState(<< >>)

EditFrame == UNCHANGED <<collections, store, nextUuid, now, pc, cur>>

(* "Add Property", lines 146-163.                                          *)
EditAddProperty ==
    /\ \E new_prop_name \in NewPropertyTexts, new_prop_type \in PropertyTypes :
        LET edit_existing_names == {lower(prop.name) : prop \in schema}
            new_names == {lower(session_state.new_properties[i].name) : i \in 1..Len(session_state.new_properties)}
        IN IF strip(new_prop_name) = << >>
           THEN /\ last' = [op |-> "add", message |-> "enter_name"]
                /\ UNCHANGED session_state
           ELSE IF lower(new_prop_name) \notin edit_existing_names /\ lower(new_prop_name) \notin new_names
           THEN /\ Len(session_state.new_properties) < MaxNewProps
                /\ session_state' = EditSessionState(Append(session_state.new_properties, [name |-> strip(new_prop_name), type |-> new_prop_type, description |-> ""]))
                /\ last' = [op |-> "add", message |-> "added"]
           ELSE /\ last' = [op |-> "add", message |-> "exists"]
                /\ UNCHANGED session_state
    /\ UNCHANGED schema
    /\ EditFrame

(* The description input of a pending property, lines 196-203.             *)
EditDescription ==
    /\ \E i \in 1..Len(session_state.new_properties), updated_desc \in Descriptions :
        session_state' = EditSessionState([session_state.new_properties EXCEPT ![i].description = updated_desc])
    /\ last' = [op |-> "describe", message |-> "none"]
    /\ UNCHANGED schema
    /\ EditFrame

(* The remove button of a pending property, lines 207-209.                 *)
EditDeletePending ==
    /\ \E i \in 1..Len(session_state.new_properties) :
        session_state' = EditSessionState(RemoveAt(session_state.new_properties, i))
    /\ last' = [op |-> "remove", message |-> "none"]
    /\ UNCHANGED schema
    /\ EditFrame

(* "Clear All New Properties", lines 214-216.                              *)
EditClearPending ==
    /\ session_state.new_properties # << >>
    /\ session_state' = EditSessionState(<< >>)
    /\ last' = [op |-> "clear", message |-> "none"]
    /\ UNCHANGED schema
    /\ EditFrame

(* "Apply New Properties", lines 219-247.                                  *)
EditApply ==
    /\ session_state.new_properties # << >>
    /\ schema' = apply_new_properties(schema, session_state.new_properties)
    /\ last' = [op |-> "apply", message |-> "not_supported"]
    /\ UNCHANGED session_state
    /\ EditFrame

NextEdit ==
    \/ EditAddProperty
    \/ EditDescription
    \/ EditDeletePending
    \/ EditClearPending
    \/ EditApply

EditSpec == InitEdit /\ [][NextEdit]_vars

(* ------------------------------ Read cache ----------------------------- *)
(* fetch_collection_data of utils/collections/read_all_objects.py under    *)
(* @st.cache_data(ttl=3600).  `store` is the remote collection (object     *)
(* ids in _id order), `now` the clock in seconds, session_state.cache the  *)
(* cache of the decorator: one entry per (collection_name, tenant_name,    *)
(* page, items_per_page); _client is not part of the key.  from_error      *)
(* records how an entry was produced; the program does not store it.       *)
MaxObjects == 2

MaxClock == 9000

TTL == 3600

ItemsPerPage == 1

CacheKeys == [collection_name : {"Articles"}, tenant_name : {None}, page : 1..2, items_per_page : {ItemsPerPage}]

TickSizes == {TTL \div 2, TTL - 1}

(* The dict returned on an empty page and in the except clause.            *)
empty_result(key) ==
    [rows |-> << >>, total_count |-> 0, total_pages |-> 0, current_page |-> key.page, items_per_page |-> key.items_per_page]

NoCacheEntry == [value |-> empty_result([page |-> 0, items_per_page |-> 0]), stored_at |-> None, from_error |-> FALSE]

(* The body of fetch_collection_data, lines 31-92; raises says whether a   *)
(* client call of the try block raises.                                    *)
fetch_body(objects, key, raises) ==
    IF raises THEN empty_result(key)
    ELSE LET items_to_skip == (key.page - 1) * key.items_per_page
             collection_data == IF items_to_skip >= Len(objects) THEN << >> ELSE Take(SubSeq(objects, items_to_skip + 1, Len(objects)), key.items_per_page)
         IN IF collection_data # << >>
            THEN [rows |-> collection_data, total_count |-> Len(objects), total_pages |-> ceil_div(Len(objects), key.items_per_page), current_page |-> key.page, items_per_page |-> key.items_per_page]
            ELSE empty_result(key)

(* A cache whose entries stay valid for ever.                              *)
never_expires(t, entry) == entry.stored_at # None

(* An entry is served while less than ttl seconds have passed since it was *)
(* stored.                                                                 *)
is_fresh(t, entry) == entry.stored_at # None /\ t < entry.stored_at + TTL

ReadSessionState(cache) == [page |-> "read", cache |-> cache]

NoFetch(op) == [op |-> op, key |-> CHOOSE k \in CacheKeys : k.page = 1, queried |-> FALSE, result |-> NoCacheEntry.value, replaced |-> NoCacheEntry]

InitRead ==
    /\ collections = {"Articles"}
    /\ schema = {}
    /\ store = <<1>>
    /\ nextUuid = 1
    /\ now = 1
    /\ pc = [s \in Sessions |-> "idle"]
    /\ cur = [s \in Sessions |-> NoCall]
    /\ last = NoFetch("none")
    /\ session_state = ReadSessionState([k \in CacheKeys |-> NoCacheEntry])

ReadFrame == UNCHANGED <<collections, schema, nextUuid, pc, cur>>

(* A call of the decorated function.                                       *)
FetchCollectionData ==
    /\ \E key \in CacheKeys, raises \in BOOLEAN :
        LET entry == session_state.cache[key]
        IN IF is_fresh(now, entry)
           THEN /\ last' = [op |-> "fetch_collection_data", key |-> key, queried |-> FALSE, result |-> entry.value, replaced |-> NoCacheEntry]
                /\ UNCHANGED session_state
           ELSE LET value == fetch_body(store, key, raises)
                IN /\ last' = [op |-> "fetch_collection_data", key |-> key, queried |-> TRUE, result |-> value, replaced |-> entry]
                   /\ session_state' = ReadSessionState([session_state.cache EXCEPT ![key] = [value |-> value, stored_at |-> now, from_error |-> raises]])
    /\ UNCHANGED <<store, now>>
    /\ ReadFrame

(* clear_session_state of utils/sidebar/helper.py: st.cache_data.clear().  *)
ClearSessionState ==
    /\ session_state' = ReadSessionState([k \in CacheKeys |-> NoCacheEntry])
    /\ last' = NoFetch("clear_session_state")
    /\ UNCHANGED <<store, now>>
    /\ ReadFrame

(* Another client adds an object to the collection or removes one.         *)
RemoteWrite ==
    /\ \/ /\ Len(store) < MaxObjects
          /\ store' = Append(store, Len(store) + 1)
       \/ /\ store # << >>
          /\ store' = SubSeq(store, 1, Len(store) - 1)
    /\ last' = NoFetch("remote_write")
    /\ UNCHANGED <<session_state, now>>
    /\ ReadFrame

(* Time passes.                                                            *)
Tick ==
    /\ \E d \in TickSizes :
        /\ now + d <= MaxClock
        /\ now' = now + d
    /\ last' = NoFetch("tick")
    /\ UNCHANGED <<session_state, store>>
    /\ ReadFrame

NextRead ==
    \/ FetchCollectionData
    \/ ClearSessionState
    \/ RemoteWrite
    \/ Tick

ReadSpec == InitRead /\ [][NextRead]_vars

(***************************************************************************)
(* The page arithmetic of fetch_collection_data                            *)
(* (src/utils/collections/read_all_objects.py, lines 30-92), with its two  *)
(* remote calls as separate steps.                                         *)
(***************************************************************************)

MaxPageObjects == 4

MaxPage == 3

MaxItemsPerPage == 3

(* Python's // rounds towards minus infinity, as \div does.                *)
floor_div(a, b) == a \div b

(* A page count that drops the last, partly filled page.                   *)
floor_pages(total_count, items_per_page) == floor_div(total_count, items_per_page)

(* Line 71: -(-total_count // items_per_page).                             *)
total_pages(total_count, items_per_page) == 0 - floor_div(0 - total_count, items_per_page)

(* Line 43.                                                                *)
items_to_skip(page, items_per_page) == (page - 1) * items_per_page

(* Lines 46-52: the request sent to collection.query.fetch_objects.        *)
fetch_request(page, items_per_page) ==
    [limit |-> items_per_page, offset |-> items_to_skip(page, items_per_page)]

(* What the database returns for a request: the objects in _id order from  *)
(* the offset on, at most limit of them.                                   *)
fetch_objects(objects, request) ==
    IF request.offset >= Len(objects) THEN << >>
    ELSE Take(SubSeq(objects, request.offset + 1, Len(objects)), request.limit)

(* Lines 65-83: the dict returned once the rows are collected.             *)
page_result(collection_data, total_count, page, items_per_page) ==
    IF collection_data # << >>
    THEN [rows |-> collection_data, total_count |-> total_count,
          total_pages |-> total_pages(total_count, items_per_page),
          current_page |-> page, items_per_page |-> items_per_page]
    ELSE empty_result([page |-> page, items_per_page |-> items_per_page])

NoPageCall == [active |-> FALSE, page |-> 0, items_per_page |-> 0, total_count |-> 0]

NoPageFetch(op) ==
    [op |-> op, page |-> 0, items_per_page |-> 0, aggregated |-> 0, asked |-> FALSE,
     request |-> [limit |-> 0, offset |-> 0], available |-> 0, raised |-> FALSE,
     result |-> empty_result([page |-> 0, items_per_page |-> 0])]

PageSessionState(call) == [page |-> "read", call |-> call]

InitPage ==
    /\ collections = {"Articles"}
    /\ schema = {}
    /\ store = << >>
    /\ nextUuid = 1
    /\ now = 1
    /\ pc = [s \in Sessions |-> "idle"]
    /\ cur = [s \in Sessions |-> NoCall]
    /\ last = NoPageFetch("none")
    /\ session_state = PageSessionState(NoPageCall)

PageFrame == UNCHANGED <<collections, schema, nextUuid, now, pc, cur>>

(* Lines 33-38: the call starts and asks for the aggregate count; a remote *)
(* error ends it in the except clause.                                     *)
AggregateCount ==
    /\ ~session_state.call.active
    /\ \E page \in 1..MaxPage, items_per_page \in 1..MaxItemsPerPage, raises \in BOOLEAN :
        IF raises
        THEN /\ last' = [NoPageFetch("fetch_collection_data") EXCEPT
                            !.page = page, !.items_per_page = items_per_page,
                            !.raised = TRUE,
                            !.result = empty_result([page |-> page,
                                                     items_per_page |-> items_per_page])]
             /\ UNCHANGED session_state
        ELSE /\ last' = [NoPageFetch("aggregate") EXCEPT
                            !.page = page, !.items_per_page = items_per_page,
                            !.aggregated = Len(store)]
             /\ session_state' =
                    PageSessionState([active |-> TRUE, page |-> page,
                                      items_per_page |-> items_per_page,
                                      total_count |-> Len(store)])
    /\ UNCHANGED store
    /\ PageFrame

(* Lines 43-92: the rows are requested and the dict is returned.           *)
FetchObjects ==
    /\ session_state.call.active
    /\ \E raises \in BOOLEAN :
        LET call == session_state.call
            request == fetch_request(call.page, call.items_per_page)
            collection_data == fetch_objects(store, request)
        IN last' = [op |-> "fetch_collection_data", page |-> call.page,
                    items_per_page |-> call.items_per_page,
                    aggregated |-> call.total_count, asked |-> TRUE,
                    request |-> request, available |-> Len(store), raised |-> raises,
                    result |-> IF raises
                               THEN empty_result([page |-> call.page,
                                                  items_per_page |-> call.items_per_page])
                               ELSE page_result(collection_data, call.total_count,
                                                call.page, call.items_per_page)]
    /\ session_state' = PageSessionState(NoPageCall)
    /\ UNCHANGED store
    /\ PageFrame

(* Another client adds an object to the collection or removes one.         *)
PageRemoteWrite ==
    /\ \/ /\ Len(store) < MaxPageObjects
          /\ store' = Append(store, Len(store) + 1)
       \/ /\ store # << >>
          /\ store' = SubSeq(store, 1, Len(store) - 1)
    /\ last' = NoPageFetch("remote_write")
    /\ UNCHANGED session_state
    /\ PageFrame

NextPage ==
    \/ AggregateCount
    \/ FetchObjects
    \/ PageRemoteWrite

PageSpec == InitPage /\ [][NextPage]_vars

(* --------------------------- Connections page -------------------------- *)
(* pages/connections.py, utils/sidebar/navigation.py and                   *)
(* utils/sidebar/helper.py.  st.session_state is a bag: the set of keys it *)
(* holds, the value of each boolean key and of each text key (a text is a  *)
(* sequence of tokens, << >> the empty string; an absent key is kept at    *)
(* FALSE / << >>), and the client handle (the number of the connection).   *)
(* session_state.cache is the st.cache_data cache: the connection under    *)
(* which the cached rows were fetched, or None.  closed and ended record   *)
(* the handles that were closed and the connections a Disconnect ended.    *)
MaxConnections == 2

TypeKeys == {"use_local", "use_custom", "use_cloud"}

FlagKeys == TypeKeys \cup {"client_ready", "custom_secure", "show_connection_dialog"}

VectorizerKeys == {"openai_key", "cohere_key", "jinaai_key", "huggingface_key"}

ActiveVectorizerKeys == {"active_openai_key", "active_cohere_key", "active_jinaai_key", "active_huggingface_key"}

ActiveKeys == {"active_endpoint", "active_api_key"} \cup ActiveVectorizerKeys

TextKeys == {"local_api_key", "custom_api_key", "cloud_endpoint", "cloud_api_key"} \cup VectorizerKeys \cup ActiveKeys

active_(key) ==
    CASE key = "openai_key" -> "active_openai_key"
      [] key = "cohere_key" -> "active_cohere_key"
      [] key = "jinaai_key" -> "active_jinaai_key"
      [] key = "huggingface_key" -> "active_huggingface_key"

EmptyBag ==
    [present |-> {}, flags |-> [k \in FlagKeys |-> FALSE], texts |-> [k \in TextKeys |-> << >>], client |-> None]

set_flag(bag, key, value) == [bag EXCEPT !.present = @ \cup {key}, !.flags[key] = value]

set_text(bag, key, value) == [bag EXCEPT !.present = @ \cup {key}, !.texts[key] = value]

(* if "key" not in st.session_state: st.session_state.key = value          *)
default_flag(bag, key, value) == IF key \in bag.present THEN bag ELSE set_flag(bag, key, value)

default_text(bag, key, value) == IF key \in bag.present THEN bag ELSE set_text(bag, key, value)

RECURSIVE default_texts(_, _, _)
default_texts(bag, keys, value) ==
    IF keys = {} THEN bag
    ELSE LET key == CHOOSE k \in keys : TRUE
         IN default_texts(default_text(bag, key, value), keys \ {key}, value)

(* The secrets that decide the connection type preference.                 *)
Secrets == [USE_LOCAL_CONNECTION : BOOLEAN, USE_CLOUD_CONNECTION : BOOLEAN]

(* streamlit_app.py lines 14-21.                                           *)
initialize_app_session_state(bag) ==
    default_text(default_text(default_flag(bag, "client_ready", FALSE), "active_endpoint", << >>), "active_api_key", << >>)

(* initialize_connection_session_state, lines 75-148.                      *)
initialize_connection_session_state(bag, secrets) ==
    LET b1 == default_texts(default_flag(bag, "custom_secure", FALSE), {"custom_api_key"} \cup VectorizerKeys, << >>)
        b2 == IF TypeKeys \subseteq b1.present THEN b1
              ELSE IF secrets.USE_LOCAL_CONNECTION
                   THEN set_flag(set_flag(set_flag(b1, "use_local", TRUE), "use_custom", FALSE), "use_cloud", FALSE)
              ELSE IF secrets.USE_CLOUD_CONNECTION
                   THEN set_flag(set_flag(set_flag(b1, "use_cloud", TRUE), "use_local", FALSE), "use_custom", FALSE)
              ELSE set_flag(set_flag(set_flag(b1, "use_custom", TRUE), "use_local", FALSE), "use_cloud", FALSE)
        b3 == default_texts(b2, {"local_api_key", "cloud_endpoint", "cloud_api_key", "active_endpoint", "active_api_key"}, << >>)
    IN default_flag(b3, "show_connection_dialog", FALSE)

(* A checkbox callback that leaves the other two checkboxes alone.         *)
callback_without_reset(bag, key) == bag

(* local_checkbox_callback, custom_checkbox_callback and                   *)
(* cloud_checkbox_callback, lines 154-167.                                 *)
checkbox_callback(bag, key) ==
    IF bag.flags[key]
    THEN [bag EXCEPT !.flags = [k \in FlagKeys |-> IF k \in TypeKeys \ {key} THEN FALSE ELSE @[k]]]
    ELSE bag

(* The connection type whose form is shown and whose branch                *)
(* handle_connection takes: the if / elif order of lines 311-378.          *)
selected_type(bag) ==
    IF bag.flags["use_local"] THEN "local"
    ELSE IF bag.flags["use_custom"] THEN "custom"
    ELSE IF bag.flags["use_cloud"] THEN "cloud"
    ELSE "none"

LocalEndpoint == <<"http://", "localhost:8080">>

custom_endpoint(bag) == <<IF bag.flags["custom_secure"] THEN "https://" ELSE "http://", "localhost:8080">>

(* Lines 354-356.                                                          *)
with_https(cloud_endpoint) ==
    IF cloud_endpoint # << >> /\ cloud_endpoint[1] # "https://"
    THEN <<"https://">> \o cloud_endpoint
    ELSE cloud_endpoint

(* initialize_client of utils/connection/weaviate_client.py: on success    *)
(* the session holds the new client handle and client_ready.               *)
initialize_client(bag, ok, handle) ==
    IF ok THEN [set_flag(bag, "client_ready", TRUE) EXCEPT !.client = handle, !.present = @ \cup {"client"}]
    ELSE set_flag(bag, "client_ready", FALSE)

(* A handler that records the connection whatever initialize_client said.  *)
persist_regardless(bag, ok, endpoint, api_key) ==
    LET b1 == set_text(set_text(bag, "active_endpoint", endpoint), "active_api_key", api_key)
    IN [b1 EXCEPT !.present = @ \cup ActiveVectorizerKeys,
                  !.texts = [k \in TextKeys |-> IF \E key \in VectorizerKeys : active_(key) = k
                                                THEN bag.texts[CHOOSE key \in VectorizerKeys : active_(key) = k]
                                                ELSE @[k]]]

(* The success branch of handle_connection (lines 319-326, 341-349,        *)
(* 366-373): the active connection info and the active_ keys.              *)
persist_active_connection(bag, ok, endpoint, api_key) ==
    IF ok
    THEN LET b1 == set_text(set_text(bag, "active_endpoint", endpoint), "active_api_key", api_key)
             b2 == [b1 EXCEPT !.present = @ \cup ActiveVectorizerKeys,
                              !.texts = [k \in TextKeys |-> IF \E key \in VectorizerKeys : active_(key) = k
                                                            THEN bag.texts[CHOOSE key \in VectorizerKeys : active_(key) = k]
                                                            ELSE @[k]]]
         IN set_flag(b2, "show_connection_dialog", FALSE)
    ELSE bag

(* handle_connection, lines 296-378: the session it leaves and the         *)
(* initialize_client calls it made.                                        *)
handle_connection(bag, ok, handle) ==
    LET kind == selected_type(bag)
        endpoint == IF kind = "local" THEN LocalEndpoint
                    ELSE IF kind = "custom" THEN custom_endpoint(bag)
                    ELSE with_https(bag.texts["cloud_endpoint"])
        api_key == IF kind = "local" THEN bag.texts["local_api_key"]
                   ELSE IF kind = "custom" THEN bag.texts["custom_api_key"]
                   ELSE bag.texts["cloud_api_key"]
        call == [kind |-> kind, endpoint |-> endpoint, api_key |-> api_key,
                 vectorizer_integration_keys |-> {key \in VectorizerKeys : bag.texts[key] # << >>}]
    IN IF kind = "none" \/ (kind = "cloud" /\ (endpoint = << >> \/ api_key = << >>))
       THEN [bag |-> bag, calls |-> << >>, ok |-> FALSE]
       ELSE [bag |-> persist_active_connection(initialize_client(bag, ok, handle), ok, endpoint, api_key),
             calls |-> <<call>>, ok |-> ok]

(* close_weaviate_client of utils/connection/weaviate_connection.py: the   *)
(* handle the session holds is closed.                                     *)
close_weaviate_client(bag, closed) ==
    IF "client" \in bag.present THEN closed \cup {bag.client} ELSE closed

(* A clearing that deletes the keys and keeps the cache.                   *)
clear_keys_only(bag, cache) == [bag |-> EmptyBag, cache |-> cache]

(* clear_session_state of utils/sidebar/helper.py, lines 11-16.            *)
clear_session_state(bag, cache) == [bag |-> EmptyBag, cache |-> None]

ConnectSessionState(bag, cache, closed, ended) ==
    [page |-> "connections", bag |-> bag, cache |-> cache, closed |-> closed, ended |-> ended]

NoConnect == [op |-> "none", calls |-> << >>, ok |-> FALSE, served |-> None]

CloudEndpoints == { << >>, <<"c.weaviate.cloud">>, <<"https://", "c.weaviate.cloud">> }

ApiKeys == { << >>, <<"k">> }

InitConnect ==
    /\ collections = UserCollections
    /\ schema = {}
    /\ store = << >>
    /\ nextUuid = 1
    /\ now = 1
    /\ pc = [s \in Sessions |-> "idle"]
    /\ cur = [s \in Sessions |-> NoCall]
    /\ last = NoConnect
    /\ session_state = ConnectSessionState(EmptyBag, None, {}, {})

ConnectFrame == UNCHANGED <<collections, schema, store, now, pc, cur>>

(* A run of streamlit_app.py or of the connections page, or the dialog     *)
(* opened: the session state is initialised.                               *)
RunPage ==
    /\ \E secrets \in Secrets, app \in BOOLEAN :
        LET bag == IF app THEN initialize_app_session_state(session_state.bag) ELSE session_state.bag
        IN session_state' = [session_state EXCEPT !.bag = initialize_connection_session_state(bag, secrets)]
    /\ last' = NoConnect
    /\ UNCHANGED nextUuid
    /\ ConnectFrame

(* A click on the Local, Custom or Cloud checkbox, lines 172-176.          *)
ToggleType ==
    /\ TypeKeys \subseteq session_state.bag.present
    /\ \E key \in TypeKeys :
        LET clicked == set_flag(session_state.bag, key, ~session_state.bag.flags[key])
        IN session_state' = [session_state EXCEPT !.bag = checkbox_callback(clicked, key)]
    /\ last' = [NoConnect EXCEPT !.op = "toggle"]
    /\ UNCHANGED nextUuid
    /\ ConnectFrame

(* The operator types into a field of the form that is shown.              *)
TypeField ==
    /\ TypeKeys \subseteq session_state.bag.present
    /\ \/ /\ selected_type(session_state.bag) = "cloud"
          /\ \E v \in CloudEndpoints : session_state' = [session_state EXCEPT !.bag = set_text(@, "cloud_endpoint", v)]
       \/ /\ selected_type(session_state.bag) = "cloud"
          /\ \E v \in ApiKeys : session_state' = [session_state EXCEPT !.bag = set_text(@, "cloud_api_key", v)]
       \/ \E key \in {"openai_key"}, v \in ApiKeys :
              session_state' = [session_state EXCEPT !.bag = set_text(@, key, v)]
    /\ last' = [NoConnect EXCEPT !.op = "type"]
    /\ UNCHANGED nextUuid
    /\ ConnectFrame

(* The Connect button of the form, lines 293-294.                          *)
PressConnect ==
    /\ TypeKeys \subseteq session_state.bag.present
    /\ nextUuid <= MaxConnections
    /\ \E ok \in BOOLEAN :
        LET r == handle_connection(session_state.bag, ok, nextUuid)
        IN /\ session_state' = [session_state EXCEPT
                                    !.bag = r.bag,
                                    !.closed = close_weaviate_client(session_state.bag, @)]
           /\ nextUuid' = IF r.ok THEN nextUuid + 1 ELSE nextUuid
           /\ last' = [NoConnect EXCEPT !.op = "handle_connection", !.calls = r.calls, !.ok = r.ok]
    /\ ConnectFrame

(* A page fetches rows through fetch_collection_data while connected.      *)
FetchRows ==
    /\ session_state.bag.flags["client_ready"]
    /\ LET cache == IF session_state.cache = None THEN session_state.bag.client ELSE session_state.cache
       IN /\ session_state' = [session_state EXCEPT !.cache = cache]
          /\ last' = [NoConnect EXCEPT !.op = "fetch_collection_data", !.served = cache]
    /\ UNCHANGED nextUuid
    /\ ConnectFrame

(* The Disconnect button: navigation.py lines 20-27, connections.py lines  *)
(* 68-73 and 411-417.                                                      *)
Disconnect ==
    /\ session_state.bag.flags["client_ready"]
    /\ LET r == clear_session_state(session_state.bag, session_state.cache)
       IN session_state' = ConnectSessionState(r.bag, r.cache,
                               close_weaviate_client(session_state.bag, session_state.closed),
                               session_state.ended \cup {session_state.bag.client})
    /\ last' = [NoConnect EXCEPT !.op = "disconnect", !.served = session_state.cache]
    /\ UNCHANGED nextUuid
    /\ ConnectFrame

NextConnect ==
    \/ RunPage
    \/ ToggleType
    \/ TypeField
    \/ PressConnect
    \/ FetchRows
    \/ Disconnect

ConnectSpec == InitConnect /\ [][NextConnect]_vars

(* ------------------------------ properties ----------------------------- *)
Present(st, uuid) == \E i \in 1..Len(st) : st[i].uuid = uuid

RecordOf(st, uuid) == st[CHOOSE i \in 1..Len(st) : st[i].uuid = uuid]

(* Every handler leaves its name in last.op, so a step whose last'.op names *)
(* a handler is a step of that handler.                                    *)
StoreOps == {"store_backup_metadata", "manual_add"}

RestoreOps == {"restore_backup", "restore_from_history"}

IsNewestFirst(rows) ==
    \A i \in 1..Len(rows), j \in 1..Len(rows) :
        i < j => rows[i].created_date >= rows[j].created_date

(* C1: a record whose status is SUCCESS or FAILED keeps that status in     *)
(* every step that does not delete it.                                     *)
C1_TerminalStatusIsFinal ==
    [][\A i \in 1..Len(store) : \A j \in 1..Len(store') :
           (store[i].status \in Terminal /\ store'[j].uuid = store[i].uuid)
               => store'[j].status = store[i].status]_vars

(* C2: when create_backup returns, the record it stored (if it is still    *)
(* stored) is SUCCESS or FAILED, and the one status write of the call went *)
(* to that record.                                                         *)
C2_OwnRecordTerminalAtReturn ==
    (last.op = "create_backup" /\ last.own # None /\ Present(store, last.own))
        => /\ RecordOf(store, last.own).status \in Terminal
           /\ last.hit = last.own

(* C3: create_backup writes SUCCESS only when the remote backup has        *)
(* completed, whatever wait_for_completion is, and writes FAILED with the  *)
(* exception text when the primitive raised.                               *)
C3_SuccessOnlyOnCompletion ==
    (last.op = "create_backup" /\ last.hit # None /\ Present(store, last.hit))
        => /\ last.status = "SUCCESS" => last.job = "SUCCESS"
           /\ last.status = "FAILED"
                  => /\ last.job = "FAILED"
                     /\ RecordOf(store, last.hit).status = "FAILED"
                     /\ RecordOf(store, last.hit).error_message = "error"

C5_UnknownIdNamedNotFound ==
    (last.op = "create_backup" /\ ~last.known)
        => /\ ~last.ok
           /\ last.msg = Msg("record_not_found", last.id)

(* C5 as amended: update_backup_status for an id no record carries returns *)
(* failure and leaves the records and the collections as they were; the    *)
(* message names the id as not found when the collection exists and no     *)
(* remote call raises, says the collection is not found when it is absent, *)
(* and is the error text when a remote call raises.                        *)
C5_UnknownIdChangesNothing ==
    [][(last'.op = "create_backup" /\ ~Carried(store, last'.id))
         => /\ store' = store
            /\ collections' = collections
            /\ schema' = schema
            /\ ~last'.ok
            /\ last'.hit = None
            /\ last'.msg = (IF last'.exc = "exists" THEN Msg("update_error", last'.id)
                            ELSE IF BACKUP_HISTORY_COLLECTION \notin collections
                                 THEN Msg("collection_not_found", "")
                            ELSE IF last'.exc = "fetch" THEN Msg("update_error", last'.id)
                            ELSE Msg("record_not_found", last'.id))]_vars

C5_Witness ==
    /\ last.op = "create_backup"
    /\ ~last.known
    /\ last.msg = Msg("record_not_found", last.id)
    /\ Len(store) > 0

(* C6 as stated: get_backup_history returns the min(limit, stored) newest  *)
(* records, newest first.                                                  *)
C6_LimitNewestFirst ==
    (last.op = "get_backup_history" /\ last.exc = "none")
        => /\ IsNewestFirst(last.rows)
           /\ Len(last.rows) = (IF Len(store) <= last.limit THEN Len(store) ELSE last.limit)
           /\ \A i \in 1..Len(store) :
                  Present(last.rows, store[i].uuid)
                  \/ \A k \in 1..Len(last.rows) :
                         last.rows[k].created_date >= store[i].created_date

(* C6 as amended: get_backup_history returns the first `limit` records in  *)
(* the order the remote store lists them, sorted newest first by           *)
(* created_date, whatever that order is; all records when at most `limit`  *)
(* are stored; and the empty list when a remote call raises.               *)
C6_FirstLimitNewestFirst ==
    last.op = "get_backup_history"
        => IF last.exc # "none" THEN last.rows = << >>
           ELSE /\ IsNewestFirst(last.rows)
                /\ Len(last.rows) = (IF Len(store) <= last.limit THEN Len(store) ELSE last.limit)
                /\ \A i \in 1..Len(store) :
                       Present(last.rows, store[i].uuid) <=> i <= last.limit
                /\ \A k \in 1..Len(last.rows) :
                       last.rows[k] = RecordOf(store, last.rows[k].uuid)

C6_Witness ==
    /\ last.op = "get_backup_history"
    /\ Len(store) = 3
    /\ store[1].created_date = 2 /\ store[2].created_date = 3 /\ store[3].created_date = 1
    /\ Len(last.rows) = 3
    /\ last.rows[1].created_date = 3 /\ last.rows[2].created_date = 2
    /\ last.rows[3].created_date = 1

(* C7: initialize_backup_history_collection issues a create only when the  *)
(* collection is absent; it never touches the records; called when the     *)
(* collection exists, or right after a call that ran to its end, it leaves *)
(* the collections and their schema as they were.                          *)
C7_InitializeIdempotent ==
    [][last'.op = "initialize"
         => /\ last'.issued => BACKUP_HISTORY_COLLECTION \notin collections
            /\ store' = store
            /\ BACKUP_HISTORY_COLLECTION \in collections
                   => collections' = collections /\ schema' = schema
            /\ (last.op = "initialize" /\ last.exc = "none")
                   => collections' = collections /\ schema' = schema]_vars

C7_Witness ==
    /\ last.op = "initialize"
    /\ last.exc = "none"
    /\ ~last.issued
    /\ BACKUP_HISTORY_COLLECTION \in collections
    /\ Len(store) > 0

(* C8: a store_backup_metadata call succeeds exactly when the collection   *)
(* is there and no remote call raises, whether or not a record with the    *)
(* same backup_id is stored; on success the store is the old store with    *)
(* one new record, and on failure it is unchanged.                         *)
C8_StoreAddsExactlyOne ==
    [][last'.op \in StoreOps
         => /\ last'.ok <=> (last'.exc \notin {"exists", "insert"}
                             /\ BACKUP_HISTORY_COLLECTION \in collections')
            /\ last'.ok => /\ ~Present(store, last'.own)
                           /\ \E k \in 1..Len(store') :
                                  /\ store'[k].uuid = last'.own
                                  /\ store'[k].backup_id = last'.id
                                  /\ RemoveAt(store', k) = store
            /\ ~last'.ok => store' = store]_vars

C8_Witness ==
    /\ last.op \in StoreOps
    /\ last.ok
    /\ last.known
    /\ \E i \in 1..Len(store), j \in 1..Len(store) :
           i # j /\ store[i].backup_id = store[j].backup_id

(* C9: after initialize_backup_history_collection has run to its end on a  *)
(* cluster without the audit collection, the collection exists with the    *)
(* nine persisted fields.                                                  *)
C9_AuditCollectionCreated ==
    (last.op = "initialize" /\ last.issued /\ last.exc = "none")
        => /\ BACKUP_HISTORY_COLLECTION \in collections
           /\ schema = AuditSchema

(* C10 as stated: every record is inserted with status IN_PROGRESS.        *)
C10_InsertedInProgress ==
    (last.op \in StoreOps /\ last.ok)
        => RecordOf(store, last.own).status = "IN_PROGRESS"

(* C10 as amended: a record inserted by create_backup starts IN_PROGRESS   *)
(* with no completion_time; the only other insertion of the backup page,   *)
(* the manual-add form shown when no history is listed, inserts SUCCESS    *)
(* with a completion_time; no record is inserted as FAILED.                *)
C10_OnlyManualAddInsertsSuccess ==
    /\ (last.op = "store_backup_metadata" /\ last.ok)
           => /\ RecordOf(store, last.own).status = "IN_PROGRESS"
              /\ RecordOf(store, last.own).completion_time = None
    /\ (last.op = "manual_add" /\ last.ok)
           => /\ RecordOf(store, last.own).status = "SUCCESS"
              /\ RecordOf(store, last.own).completion_time # None

C10_Witness ==
    /\ last.op = "store_backup_metadata"
    /\ last.ok
    /\ \E i \in 1..Len(store) : store[i].uuid # last.own /\ store[i].path = "p"

(* C11: no Backup History Tracker operation raises to its caller; when a   *)
(* remote client call raises inside it, store_backup_metadata,             *)
(* update_backup_status and delete_backup_record return (False, message)   *)
(* with the records as they were, get_backup_history returns the empty     *)
(* list, and initialize_backup_history_collection returns normally.        *)
C11_TrackerNeverRaises ==
    last.op \in TrackerOps
        => /\ ~last.raised
           /\ (last.exc \notin {"none", "create"}
                   /\ last.op \in {"store_backup_metadata", "update_backup_status",
                                   "delete_backup_record"})
                  => /\ ~last.ok
                     /\ last.msg.kind \in {"store_error", "update_error", "delete_error",
                                           "collection_not_found", "record_not_found"}
           /\ (last.exc \in {"exists", "get", "fetch"} /\ last.op = "get_backup_history")
                  => last.rows = << >>

C11_Witness ==
    /\ last.op = "delete_backup_record"
    /\ last.exc = "delete"
    /\ ~last.ok
    /\ Len(store) = 2

Range(q) == {q[i] : i \in 1..Len(q)}

(* C12: delete_collections is called only in a run where show_confirmation *)
(* is True, the typed confirmation text equals DELETE after trimming and   *)
(* upper-casing, and the delete button was pressed; and only for names in  *)
(* the operator's selection.  No other run changes the remote collections. *)
C12_DeleteOnlyAfterConfirmation ==
    [][/\ last'.op = "perform_deletion"
           => /\ session_state.show_confirmation
              /\ upper(strip(session_state.confirmation_text)) = DELETE
              /\ last'.button = "delete"
              /\ Range(last'.attempted) \subseteq
                     session_state.selected_collections_for_deletion
       /\ collections' # collections => last'.op = "perform_deletion"]_vars

C12_Witness ==
    /\ last.op = "perform_deletion"
    /\ Len(last.attempted) = 2
    /\ Cardinality(collections) = 1

(* C13: perform_deletion attempts every selected collection exactly once,  *)
(* in order, whatever the outcome of the earlier ones; the failed names    *)
(* are reported with their errors, and successes plus failures make up the *)
(* number of selected collections.                                         *)
C13_BestEffortSequential ==
    last.op = "perform_deletion"
        => /\ last.attempted = last.selected_collections
           /\ last.success_count + Len(last.failed_collections)
                  = Len(last.selected_collections)
           /\ last.success_count
                  = Cardinality({c \in DOMAIN last.outcome : last.outcome[c] = "deleted"})
           /\ \A c \in DOMAIN last.outcome :
                  last.outcome[c] # "deleted"
                      <=> \E k \in 1..Len(last.failed_collections) :
                              last.failed_collections[k] = <<c, last.outcome[c]>>

C13_Witness ==
    /\ last.op = "perform_deletion"
    /\ Len(last.selected_collections) = 3
    /\ last.outcome[last.selected_collections[1]] = "raised"
    /\ last.outcome[last.selected_collections[2]] = "failed"
    /\ last.outcome[last.selected_collections[3]] = "deleted"
    /\ last.success_count = 1

(* The key each keyed vectorizer needs.                                    *)
RequiredKey ==
    [v \in {"text2vec_openai", "text2vec_cohere", "text2vec_jinaai", "text2vec_huggingface"}
       |-> CASE v = "text2vec_openai" -> "active_openai_key"
             [] v = "text2vec_cohere" -> "active_cohere_key"
             [] v = "text2vec_jinaai" -> "active_jinaai_key"
             [] v = "text2vec_huggingface" -> "active_huggingface_key"]

(* C14: the create form invokes create_collection or                       *)
(* create_collection_with_properties only with a non-empty collection name *)
(* and, for text2vec_openai, text2vec_cohere, text2vec_jinaai and          *)
(* text2vec_huggingface, only when the matching active_*_key is set; a     *)
(* blocked submission leaves the collections as they were.                 *)
C14_NoCreateWithoutKey ==
    [][last'.op = "handle_form_submission"
         => /\ last'.invoked # "none"
                   => /\ last'.collection_name # << >>
                      /\ last'.selected_vectorizer \in DOMAIN RequiredKey
                             => truthy(session_state.active[
                                          RequiredKey[last'.selected_vectorizer]])
            /\ last'.invoked = "none" => collections' = collections]_vars

C14_Witness ==
    /\ last.op = "handle_form_submission"
    /\ last.invoked = "none"
    /\ last.selected_vectorizer = "text2vec_cohere"
    /\ session_state.active["active_cohere_key"] = ""
    /\ last.collection_name # << >>

(* C15: no two entries of custom_properties have names that are equal      *)
(* ignoring case or that sanitize to the same name.                        *)
C15_PropertyNamesUnique ==
    session_state.page = "create"
        => \A i, j \in 1..Len(session_state.custom_properties) :
               i # j => /\ lower(session_state.custom_properties[i].name)
                              # lower(session_state.custom_properties[j].name)
                        /\ sanitized_name(session_state.custom_properties[i].name)
                              # sanitized_name(session_state.custom_properties[j].name)

RECURSIVE SumCounts(_)
SumCounts(yielded) ==
    IF yielded = << >> THEN 0
    ELSE Head(yielded).succeeded + Head(yielded).failed + SumCounts(Tail(yielded))

(* C16: batch_upload over N records with batch size B yields exactly       *)
(* ceil(N/B) tuples (none for N = 0), and the succeeded and failed counts  *)
(* of the tuples sum to N; 250 records with B = 100 give batches of 100,   *)
(* 100 and 50.                                                             *)
C16_CeilBatchesSumToN ==
    last.op \in {"batch_upload", "handle_document_submission"}
        => /\ Len(last.yielded) * last.b >= last.n
           /\ (Len(last.yielded) - 1) * last.b < last.n \/ Len(last.yielded) = 0
           /\ last.n = 0 => last.yielded = << >>
           /\ SumCounts(last.yielded) = last.n
           /\ (last.n = 250 /\ last.b = 100)
                  => /\ Len(last.yielded) = 3
                     /\ last.yielded[1].succeeded + last.yielded[1].failed = 100
                     /\ last.yielded[2].succeeded + last.yielded[2].failed = 100
                     /\ last.yielded[3].succeeded + last.yielded[3].failed = 50

C16_Witness ==
    /\ last.op = "batch_upload"
    /\ last.n = 250
    /\ last.b = 100
    /\ Len(last.yielded) = 3
    /\ last.yielded[3].succeeded = 50

(* C17: a transport failure on batch K is isolated: batch K is reported    *)
(* with success = False, every other batch is still submitted and reported *)
(* in order, and a batch the store accepts is reported as succeeded.       *)
C17_TransportFailureIsolated ==
    last.op = "batch_upload"
        => /\ Len(last.yielded) = Len(last.outcome)
           /\ \A k \in 1..Len(last.yielded) :
                  /\ last.yielded[k].batch = k
                  /\ last.outcome[k] = "transport" => ~last.yielded[k].success
                  /\ last.outcome[k] = "ok"
                         => /\ last.yielded[k].success
                            /\ last.yielded[k].failed = 0

C17_Witness ==
    /\ last.op = "batch_upload"
    /\ Len(last.yielded) = 3
    /\ last.outcome[2] = "transport"
    /\ ~last.yielded[2].success
    /\ last.yielded[1].success
    /\ last.yielded[3].success

Unmappable(properties) ==
    \E i \in 1..Len(properties) : properties[i].type \notin get_available_data_types

(* C18: create_collection_with_properties is all-or-nothing: when one      *)
(* property of the list has an unsupported semantic type the set of        *)
(* collections is unchanged and the call returns False; a collection is    *)
(* added only when every property was mapped, and then with all of them.   *)
C18_AllOrNothing ==
    [][last'.op = "create_collection_with_properties"
          => /\ Unmappable(last'.properties)
                   => /\ collections' = collections
                      /\ schema' = schema
                      /\ ~last'.ok
             /\ collections' # collections
                   => /\ ~Unmappable(last'.properties)
                      /\ collections' = collections \cup {last'.name}
                      /\ schema' = Range(last'.properties)
                      /\ last'.ok]_vars

C18_Witness ==
    /\ last.op = "create_collection_with_properties"
    /\ Len(last.properties) = 2
    /\ last.properties[1].type = "TEXT"
    /\ last.properties[2].type = "TEXT_ARRAY"
    /\ ~last.ok
    /\ last.name \notin collections

(* C19: the properties of an existing collection only grow: no step of the *)
(* edit page (add, remove pending, clear pending, Apply New Properties)    *)
(* renames, retypes or deletes a property of the remote collection.        *)
C19_ExistingPropertiesOnlyGrow ==
    [][\A prop \in schema :
          /\ prop \in schema'
          /\ \A other \in schema' : other.name = prop.name => other.type = prop.type]_vars

(* Apply pressed with a pending property that carries the name of an       *)
(* existing one and another type.                                          *)
C19_Witness ==
    /\ last.op = "apply"
    /\ \E i \in 1..Len(session_state.new_properties) :
          /\ session_state.new_properties[i].name = <<"a">>
          /\ session_state.new_properties[i].type = "INT"
    /\ [name |-> <<"a">>, type |-> "TEXT"] \in schema

(* C20: the read cache on fetch_collection_data is time-bounded: a result  *)
(* stored at time t under (collection_name, tenant_name, page,             *)
(* items_per_page) is served only while the clock is below t + 3600; a     *)
(* call with the same arguments at or after that time queries the remote   *)
(* store again and replaces the entry, also when the entry was the empty   *)
(* result of a failed fetch.                                               *)
C20_CacheTimeBounded ==
    [][last'.op = "fetch_collection_data"
          => LET entry == session_state.cache[last'.key]
             IN /\ ~last'.queried
                      => /\ entry.stored_at # None
                         /\ now < entry.stored_at + 3600
                         /\ last'.result = entry.value
                         /\ session_state' = session_state
                /\ (entry.stored_at # None /\ now >= entry.stored_at + 3600)
                      => /\ last'.queried
                         /\ session_state'.cache[last'.key].stored_at = now
                         /\ \E raises \in BOOLEAN : last'.result = fetch_body(store, last'.key, raises)]_vars

(* An expired empty result of a failed fetch is replaced by the rows the   *)
(* remote store holds.                                                     *)
C20_Witness ==
    /\ last.op = "fetch_collection_data"
    /\ last.queried
    /\ last.replaced.from_error
    /\ last.replaced.stored_at + 3600 <= now
    /\ last.result.rows # << >>

CarriersOf(st, backup_id) == {i \in 1..Len(st) : st[i].backup_id = backup_id}

C22_FailedStoreDoesNotBlock ==
    [][/\ (last'.op = "backup.create" /\ pc' # pc)
            => /\ pc[last'.sess] = "stored"
               /\ cur[last'.sess].job = "none"
               /\ cur'[last'.sess].job # "none"
       /\ last'.op = "create_backup"
            => /\ cur[last'.sess].job # "none"
               /\ cur[last'.sess].own = None
                    => /\ ~last'.ok
                       /\ Len(store') = Len(store)]_vars

C25_AtMostOneConnectionType ==
    [][/\ Cardinality({key \in TypeKeys : session_state'.bag.flags[key]}) <= 1
       /\ last'.op = "handle_connection"
            => /\ Len(last'.calls) <= 1
               /\ last'.calls # << >>
                    => \A key \in TypeKeys :
                          session_state.bag.flags[key] <=> key = "use_" \o last'.calls[1].kind
               /\ (\A key \in TypeKeys : ~session_state.bag.flags[key]) => last'.calls = << >>]_vars

(* Cloud is the one selected type and handle_connection called             *)
(* initialize_client once, for the cloud.                                  *)
C25_Witness ==
    /\ last.op = "handle_connection"
    /\ Len(last.calls) = 1
    /\ last.calls[1].kind = "cloud"
    /\ session_state.bag.flags["use_cloud"]
    /\ ~session_state.bag.flags["use_local"]
    /\ ~session_state.bag.flags["use_custom"]

(* C26: handle_connection changes active_endpoint, active_api_key and the  *)
(* four active_*_key entries only when initialize_client returned success, *)
(* and then sets all of them to the values used for that connection; on a  *)
(* failed or unattempted connection they are unchanged.                    *)
C26_ActiveKeysOnlyOnSuccess ==
    [][last'.op = "handle_connection"
          => IF last'.ok
             THEN /\ Len(last'.calls) = 1
                  /\ ActiveKeys \subseteq session_state'.bag.present
                  /\ session_state'.bag.texts["active_endpoint"] = last'.calls[1].endpoint
                  /\ session_state'.bag.texts["active_api_key"] = last'.calls[1].api_key
                  /\ \A key \in VectorizerKeys :
                        /\ session_state'.bag.texts[active_(key)] = session_state.bag.texts[key]
                        /\ key \in last'.calls[1].vectorizer_integration_keys
                              <=> session_state'.bag.texts[active_(key)] # << >>
             ELSE \A key \in ActiveKeys :
                        /\ session_state'.bag.texts[key] = session_state.bag.texts[key]
                        /\ key \in session_state'.bag.present <=> key \in session_state.bag.present]_vars

(* A cloud connection with an empty API key after a local one: no call,    *)
(* and the active entries still describe the local connection.             *)
C26_Witness ==
    /\ last.op = "handle_connection"
    /\ last.calls = << >>
    /\ session_state.bag.flags["use_cloud"]
    /\ session_state.bag.texts["cloud_api_key"] = << >>
    /\ session_state.bag.texts["cloud_endpoint"] # << >>
    /\ session_state.bag.texts["active_endpoint"] = LocalEndpoint
    /\ session_state.bag.texts["active_openai_key"] = <<"k">>

(* C24: on the delete page show_confirmation is True only while the        *)
(* selection is non-empty, so perform_deletion is handed at least one      *)
(* collection and its progress fraction (i + 1) / len(...) has a non-zero  *)
(* denominator; after Cancel and after perform_deletion has completed the  *)
(* selection is empty and show_confirmation is False.                      *)
C24_ConfirmationHasSelection ==
    /\ session_state.show_confirmation
          => session_state.selected_collections_for_deletion # {}
    /\ last.op = "perform_deletion"
          => /\ Len(last.selected_collections) > 0
             /\ Len(last.attempted) = Len(last.selected_collections)
    /\ last.op \in {"cancel", "perform_deletion"}
          => /\ session_state.selected_collections_for_deletion = {}
             /\ ~session_state.show_confirmation

(* perform_deletion has completed on a selection of two collections, one   *)
(* of which could not be deleted.                                          *)
C24_Witness ==
    /\ last.op = "perform_deletion"
    /\ Len(last.selected_collections) = 2
    /\ last.success_count = 1
    /\ session_state.selected_collections_for_deletion = {}
    /\ ~session_state.show_confirmation

(* C27: handle_document_submission calls batch_upload at most once, with a *)
(* list of exactly one record that is non-empty and has no field whose     *)
(* value is None or blank after trimming; when every field of the form is  *)
(* None or blank, batch_upload is not called.                              *)
C27_NeverSubmitsEmptyDocument ==
    last.op = "handle_document_submission"
        => /\ Len(last.calls) <= 1
           /\ \A c \in 1..Len(last.calls) :
                /\ Len(last.calls[c]) = 1
                /\ DOMAIN last.calls[c][1] # {}
                /\ \A k \in DOMAIN last.calls[c][1] :
                      /\ last.calls[c][1][k] # NoneValue
                      /\ strip(str(last.calls[c][1][k])) # << >>
                      /\ k \in DOMAIN last.document_data
                      /\ last.calls[c][1][k] = last.document_data[k]
           /\ (\A k \in DOMAIN last.document_data :
                    \/ last.document_data[k] = NoneValue
                    \/ strip(str(last.document_data[k])) = << >>)
                 => last.calls = << >>

(* A form with one blank and one filled field was submitted: the record    *)
(* uploaded holds the filled field only.                                   *)
C27_Witness ==
    /\ last.op = "handle_document_submission"
    /\ Len(last.calls) = 1
    /\ DOMAIN last.document_data = {"title", "count"}
    /\ last.document_data["title"] = StrValue(<<" ">>)
    /\ DOMAIN last.calls[1][1] = {"count"}

(* C28: a non-empty fetch_collection_data result reports the aggregate     *)
(* count as total_count and the least number of pages of items_per_page    *)
(* rows that hold total_count rows as total_pages, was requested from      *)
(* offset (page - 1) * items_per_page, and holds at most items_per_page    *)
(* rows; an empty page and a remote error give an empty table with         *)
(* total_count 0 and total_pages 0.                                        *)
C28_PageArithmetic ==
    last.op = "fetch_collection_data"
        => /\ last.result.current_page = last.page
           /\ last.result.items_per_page = last.items_per_page
           /\ IF last.result.rows # << >>
              THEN /\ last.result.total_count = last.aggregated
                   /\ last.result.total_pages * last.items_per_page >= last.aggregated
                   /\ (last.result.total_pages - 1) * last.items_per_page < last.aggregated
                   /\ last.request.offset = (last.page - 1) * last.items_per_page
                   /\ last.request.limit = last.items_per_page
                   /\ Len(last.result.rows) <= last.items_per_page
                   /\ \A k \in 1..Len(last.result.rows) :
                         last.result.rows[k] = last.request.offset + k
              ELSE /\ last.result.total_count = 0
                   /\ last.result.total_pages = 0
           /\ (last.raised \/ (last.asked /\ last.request.offset >= last.available))
                 => last.result.rows = << >>

(* The second page of three rows each, of a collection of four objects:    *)
(* one row and two pages.                                                  *)
C28_Witness ==
    /\ last.op = "fetch_collection_data"
    /\ last.aggregated = 4
    /\ last.items_per_page = 3
    /\ last.page = 2
    /\ Len(last.result.rows) = 1
    /\ last.result.total_pages = 2

(* C29: a record of the history store has a completion_time exactly when   *)
(* its status is SUCCESS or FAILED: store_backup_metadata writes one only  *)
(* for a terminal status (the supplied one if there is one, else the time  *)
(* of the call) and writes none for IN_PROGRESS even when one is supplied, *)
(* and update_backup_status writes the time of the call together with the  *)
(* new status.                                                             *)
C29_CompletionTimeIffTerminal ==
    /\ \A i \in 1..Len(store) :
          store[i].completion_time # None <=> store[i].status \in Terminal
    /\ last.op = "store_backup_metadata" /\ last.ok
          => /\ RecordOf(store, last.own).status = last.status
             /\ RecordOf(store, last.own).completion_time =
                    IF last.status \in Terminal
                    THEN (IF last.completion_time # None THEN last.completion_time
                          ELSE last.t)
                    ELSE None
    /\ last.op = "update_backup_status" /\ last.ok
          => /\ RecordOf(store, last.hit).status = last.status
             /\ RecordOf(store, last.hit).completion_time = last.t

(* An IN_PROGRESS record was stored with a completion_time supplied, and   *)
(* holds none.                                                             *)
C29_Witness ==
    /\ last.op = "store_backup_metadata"
    /\ last.ok
    /\ last.status = InitialStatus
    /\ last.completion_time # None
    /\ RecordOf(store, last.own).completion_time = None
    /\ \E i \in 1..Len(store) : store[i].status \in Terminal

====
